---- MODULE Spec2Model ----
(***************************************************************************)
(* A model of the KappaLibrary streaming runtime.                          *)
(*                                                                         *)
(* Part I   - ProcessorManager / ProcessorMode / TaskManager /             *)
(*            MemoryManager mode index (processor_engine/src/engine.rs,    *)
(*            processor_engine/src/task_monitor.rs,                        *)
(*            data_model/src/memory_manager.rs).                           *)
(*                                                                         *)
(* Part II  - Statics and its registration in the MemoryManager            *)
(*            (data_model/src/memory_manager.rs).                          *)
(* Part III - the lifecycle of a block: StreamProcessor init/run/process/  *)
(*            stop and the blocks that override them                       *)
(*            (processor_engine/src/stream_processor.rs, interfaces/src).  *)
(*                                                                         *)
(* A panic is modelled as the termination of the panicking thread with pc  *)
(* "panicked"; a mutex whose guard is alive at the panic is poisoned.  The *)
(* application thread that calls the manager survives a panic of a call    *)
(* (as under catch_unwind) and records the result "Panic".                 *)
(***************************************************************************)
EXTENDS Integers, Sequences, FiniteSets, TLC

\* ------------------------------------------------------------------ bounds
MaxModes  == 2   \* modes that add_mode registers
MaxChains == 2   \* chains per mode
MaxNodes  == 1   \* processors per chain
MaxTasks  == 5   \* threads that create_task spawns
MaxValue  == 2   \* the values of a memory variable are 0..MaxValue
MaxStatics == 2  \* statics of a block
MaxListeners == 2 \* channels connected to a State
MaxSends == 2    \* items sent into one channel
MaxInputs == 2   \* Inputs an Output can be connected to
MaxClones == 1   \* clones of an Input's sender held by producers
MaxBurst == 51   \* items a burst of sends pushes into one Input
MaxBlocks == 3   \* blocks added to one chain
MaxRegistered == 2 \* blocks registered in the ProcessorEngine
MaxEntries == 1  \* entries registered in the maps of one block
MaxThreads == 2  \* threads that TaskManager::create_task spawns for the monitor
MaxCpu == 2      \* CPU time a thread consumes, in units of the monitor's interval
MaxSamples == 2  \* monitor iterations when several tasks are watched
MaxRing == 102   \* monitor iterations when one task's ring is filled

NoTask  == 0
TaskIds == 1..MaxTasks

VARIABLES
    modes,                 \* ProcessorManager.modes: index -> chains (each chain: its number of nodes)
    pm_current_mode_index, \* ProcessorManager.current_mode_index
    curr_mode_handle,      \* ProcessorManager.curr_mode_handle (NoTask = None)
    memory_modes,          \* MemoryManager.memory_modes: the registered indices
    mm_current_mode_index, \* MemoryManager.current_mode_index
    stopped_modes,         \* modes whose blocks have been set to Stopped by ProcessorMode::stop
    tmOwner,               \* the thread holding the TaskManager mutex across steps (NoTask = free)
    tmPoisoned,            \* the TaskManager mutex is poisoned
    task,                  \* the threads spawned by TaskManager::create_task
    nTasks,                \* how many of them
    appPc,                 \* the caller of the manager: "idle" or its place in switch_mode
    appIndex,              \* switch_mode's argument while the call is in progress
    appHandle,             \* the handle taken from curr_mode_handle
    lastOp, lastArg, lastRes, \* the last call that ended, its argument and its result
    mmPoisoned,            \* the MemoryManager mutex is poisoned
    \* Part II
    statics,               \* a Statics<T> variable (exists = FALSE before Statics::new)
    mapped_statics,        \* MemoryMode.mapped_statics[name] of each memory mode: the registered clone
    vLastOp, vLastArg, vLastRes, \* the last operation on the variable, its argument and result
    vPre,                  \* the variable as it was before that operation
    vPreMm,                \* what the MemoryManager could give before that operation
    vFirstWrite,           \* the value of the first successful set_value of the variable (-1: none)
    vRegMode,              \* the memory mode Statics::new registered the variable in (-1: none)
    \* Part III
    bKind,                 \* which implementation of StreamProcessor the block is
    bStatics,              \* the block's statics map
    proc_state,            \* the block's lifecycle state
    bResource,             \* tcp_stream / tcp_listen / socket is Some
    runPc,                 \* the thread inside run(): "idle", "loop" or "process"
    bLastOp, bLastRes,     \* the last step on the block and the result it returned ("-": none yet)
    bPre,                  \* proc_state before that step
    bPreSettable,          \* the statics that were settable before that step
    \* Part IV
    parameter,             \* a Parameter<T> variable (exists = FALSE before Parameter::new)
    mapped_parameters,     \* MemoryMode.mapped_parameters[name] of each memory mode
    pLastOp, pLastArg, pLastRes, \* the last operation on the parameter, its argument and result
    pPre,                  \* the parameter as it was before that operation
    pPreMm,                \* what the MemoryManager could give before that operation
    state_value,           \* a State<T> variable (exists = FALSE before State::new)
    mapped_state,          \* MemoryMode.mapped_state[name] of each memory mode
    listeners,             \* the channels whose SyncSender was given to State::connect, in order
    sLastOp, sLastArg, sLastRes, \* the last operation on the state, its argument and result
    sPreListeners,         \* the listeners' channels before that operation
    \* Part V
    in_alive,              \* the Input exists: its receiver and its own sender are alive
    in_queue,              \* the items buffered in the Input's channel, oldest first
    in_clones,             \* clones of Input.sender held by producers
    prodPc,                \* a producer of the Input: "idle", or inside send through "own" / "clone"
    prodData,              \* the item that producer is sending
    prodWaited,            \* that send found the channel full when it was called
    recvPc,                \* the consumer of the Input: "idle" or "blocked" inside recv
    in_sent,               \* every item the Input's channel has accepted, in order
    in_received,           \* every item recv has returned, in order
    out_senders,           \* Output.senders: the Input each sender belongs to, in order of connect
    outPc,                 \* Output::send: 0 outside the call, else the position of the sender served next
    outData,               \* the payload of the send in progress
    outPre,                \* in_sent when that send was called
    out_log,               \* the sends that have returned: payload, senders at the call, failing position
    cLastOp, cLastIn, cLastRes, \* the last connector call that returned, its Input and its result
    cLastWaited,           \* that call was a send that had found the channel full
    \* Part VI
    chain_head,            \* ProcessorChain.head: the node it points to (NoNode = None)
    chain_tail,            \* ProcessorChain.tail
    chain_nodes,           \* ProcessorChain.nodes: the node pointers, in the order of add_processor
    chain_freed,           \* the nodes whose Box has been dropped: pointers to them dangle
    chain_stopped,         \* the blocks of the chain whose state is Stopped
    chLastOp, chLastRes,   \* the last call on the chain that ended, and its result
    chCalls,               \* the blocks that call reached, in the order it called them
    chBlockRes,            \* what each block's process() / stop() returned or would have returned
    chMem,                 \* what the reads of freed nodes gave during that call
    \* Part VII
    processor_map,         \* ProcessorEngine.processor_map: name -> the block (kind, state, is_initialized)
    eLastOp, eLastArg, eLastRes, \* the last call on the engine, its argument and its result
    eOrder,                \* the order in which that call's iter_mut() gave the blocks
    eInitCalls,            \* the blocks whose init() that call called, in order
    eStopCalls,            \* the blocks whose stop() that call called, in order
    eFailed,               \* the block whose init() failed in that call (0: none)
    \* Part VIII
    block_map,             \* the maps of one block (inputs, outputs, parameters, statics, state): qualified name -> entry
    rLastOp, rLastKey, rLastType, rLastRes, \* the last call on the maps, its key, its element type, its result
    rPre,                  \* the maps before that call
    \* Part IX
    mem_mode,              \* one MemoryMode: mapped_state, mapped_statics, mapped_parameters (name -> value)
    ser_result,            \* what serialize_all has just returned, as JSON tokens (<<>>: no call, or the mode was written since)
    ser_orders,            \* the order in which that call's loops iterated each map
    \* Part X
    mon_tasks,             \* TaskManager.tasks: name -> Task (thread_id, cpu_clock_id, last_cpu_time, occupacy)
    mon_threads,           \* how many threads create_task has spawned (the main thread is 0)
    mon_alive,             \* the threads that are running
    mon_cpu,               \* the CPU time each thread has consumed: what its CPU clock reads
    mon_closure,           \* name -> the thread create_task spawned to run the closure given with that name
    mon_pushed,            \* name -> every sample pushed onto the task's ring, in order
    mon_updates,           \* the iterations the monitoring loop has made
    \* Part XI
    procPc,                \* block -> where the thread inside its process() is: "idle", "recv", "blocked", "got", "io"
    procLock,              \* block -> the block's own lock (the field `lock`) is held
    procQueue,             \* block -> the items waiting in the block's input
    procRes,               \* block -> what its last process() returned ("-": none yet)
    \* Part XII
    tcp_source,            \* which TcpReceiver this is: that of tcp_receiver.rs or that of tcp_interface.rs
    THREAD_EXIT,           \* the static OnceLock<Arc<Mutex<bool>>>: "unset", "false" or "true"
    tcp_handle,            \* TcpReceiver.tcp_handle: the JoinHandles of the handler tasks, in order
    handlerPc,             \* handler -> "none", "read", "check", "done" or "panicked"
    tcpStopPc,             \* the thread calling stop(): "idle", "join" or "done"
    tcp_proc_state         \* the lifecycle state of the TcpReceiver

modeVars == <<modes, pm_current_mode_index, curr_mode_handle, memory_modes,
              mm_current_mode_index, stopped_modes, tmOwner, tmPoisoned, task,
              nTasks, appPc, appIndex, appHandle, lastOp, lastArg, lastRes>>

varVars == <<statics, mapped_statics, vLastOp, vLastArg, vLastRes, vPre, vPreMm,
             vFirstWrite, vRegMode>>

blockVars == <<bKind, bStatics, proc_state, bResource, runPc, bLastOp, bLastRes,
               bPre, bPreSettable>>

paramVars == <<parameter, pLastOp, pLastArg, pLastRes, pPre, pPreMm>>

stateVars == <<state_value, listeners, sLastOp, sLastArg, sLastRes, sPreListeners>>

\* The other two maps of each MemoryMode
mapVars == <<mapped_parameters, mapped_state>>

\* The variables of Parts IV and later
connVars == <<in_alive, in_queue, in_clones, prodPc, prodData, prodWaited, recvPc,
              in_sent, in_received, out_senders, outPc, outData, outPre, out_log,
              cLastOp, cLastIn, cLastRes, cLastWaited>>

chainVars == <<chain_head, chain_tail, chain_nodes, chain_freed, chain_stopped, chLastOp, chLastRes,
               chCalls, chBlockRes, chMem>>

\* The variables of Parts VI and later
engineVars == <<processor_map, eLastOp, eLastArg, eLastRes, eOrder, eInitCalls,
                eStopCalls, eFailed>>

regVars == <<block_map, rLastOp, rLastKey, rLastType, rLastRes, rPre>>

serVars == <<mem_mode, ser_result, ser_orders>>

monVars == <<mon_tasks, mon_threads, mon_alive, mon_cpu, mon_closure, mon_pushed,
             mon_updates>>

procVars == <<procPc, procLock, procQueue, procRes>>

tcpVars == <<tcp_source, THREAD_EXIT, tcp_handle, handlerPc, tcpStopPc, tcp_proc_state>>

tailVars == <<serVars, monVars, procVars, tcpVars>>

restVars == <<chainVars, engineVars, regVars, tailVars>>

laterVars == <<paramVars, stateVars, connVars, restVars>>

vars == <<modeVars, mmPoisoned, varVars, blockVars, mapVars, laterVars>>

\* ------------------------------------------------------------ Part I: modes

ModeIds == 0..(MaxModes - 1)

\* No clone of the variable is registered in a memory mode.
NoClone == [exists |-> FALSE, value |-> 0, settable |-> FALSE]

\* The sequences of at most MaxChains chains, each chain given by its number of
\* nodes: none, or MaxNodes of them.
ChainSeqs == UNION {[1..k -> {0, MaxNodes}] : k \in 0..MaxChains}

\* A thread: a mode thread (the closure of switch_mode, running ProcessorMode::run)
\* or a driver (the closure of run, owned by the mode thread that spawned it).
NoTaskRec == [kind |-> "none", mode |-> 0, chain |-> 0, owner |-> 0, pc |-> "none",
              handles |-> <<>>]

\* ProcessorManager::new, TaskManager::new
PmInit ==
    /\ modes = <<>>
    /\ pm_current_mode_index = 0
    /\ curr_mode_handle = NoTask
    /\ stopped_modes = {}
    /\ tmOwner = NoTask
    /\ tmPoisoned = FALSE
    /\ task = [t \in TaskIds |-> NoTaskRec]
    /\ nTasks = 0
    /\ appPc = "idle"
    /\ appIndex = 0
    /\ appHandle = NoTask
    /\ lastOp = "new"
    /\ lastArg = 0
    /\ lastRes = "Ok"

\* MemoryManager::new
MmInit ==
    /\ memory_modes = {}
    /\ mm_current_mode_index = 0
    /\ mmPoisoned = FALSE
    /\ mapped_statics = [m \in ModeIds |-> NoClone]
    /\ mapped_parameters = [m \in ModeIds |-> NoClone]
    /\ mapped_state = [m \in ModeIds |-> NoClone]

\* modes.contains_key(index): the keys are 0..len-1, held here at positions 1..len
ContainsKey(index) == index + 1 \in DOMAIN modes
Chains(index) == modes[index + 1]

\* JoinHandle::join returns once the thread has ended, normally or by a panic
JoinReadyNoWait(h) == TRUE
JoinReady(h) == task[h].pc \in {"done", "panicked"}

\* Mutex::lock on the TaskManager: blocks while another thread holds the guard
TmLockable == tmOwner = NoTask

\* The drivers that started mode threads have still to spawn.
PendingDrivers ==
    Cardinality({<<t, c>> \in TaskIds \X (1..MaxChains) :
        /\ task[t].kind = "mode"
        /\ task[t].pc \in {"start", "spawn"}
        /\ c \in (Len(task[t].handles) + 1)..Len(Chains(task[t].mode))})

\* What a step of Part I leaves alone.
ModeFrame == UNCHANGED <<mmPoisoned, varVars, blockVars, mapVars, laterVars>>

ReturnOk(op, arg, res) ==
    /\ appPc' = "idle"
    /\ lastOp' = op
    /\ lastArg' = arg
    /\ lastRes' = "Ok"

\* the call ends and hands its result to the caller
Return(op, arg, res) ==
    /\ appPc' = "idle"
    /\ lastOp' = op
    /\ lastArg' = arg
    /\ lastRes' = res

\* ProcessorManager::add_mode: modes.insert(index, mode), then
\* MemoryManager::get_memory_manager().unwrap().add_mode(index), which inserts a
\* new, empty MemoryMode
AddMode(chains) ==
    /\ appPc = "idle"
    /\ Len(modes) < MaxModes
    /\ modes' = Append(modes, chains)
    /\ IF mmPoisoned
       THEN /\ Return("add_mode", Len(modes), "Panic")
            /\ UNCHANGED <<memory_modes, mapped_statics, mapVars>>
       ELSE /\ memory_modes' = memory_modes \cup {Len(modes)}
            /\ mapped_statics' = [mapped_statics EXCEPT ![Len(modes)] = NoClone]
            /\ mapped_parameters' = [mapped_parameters EXCEPT ![Len(modes)] = NoClone]
            /\ mapped_state' = [mapped_state EXCEPT ![Len(modes)] = NoClone]
            /\ Return("add_mode", Len(modes), "Ok")
    /\ UNCHANGED <<pm_current_mode_index, curr_mode_handle, mm_current_mode_index,
                   stopped_modes, tmOwner, tmPoisoned, task, nTasks, appIndex, appHandle>>
    /\ UNCHANGED <<mmPoisoned, statics, vLastOp, vLastArg, vLastRes, vPre, vPreMm,
                   vFirstWrite, vRegMode, blockVars, laterVars>>

\* ProcessorManager::switch_mode, up to handle.join(): the two early returns,
\* curr_mode_handle.take() and curr_mode.stop()
SwitchCall(index) ==
    /\ appPc = "idle"
    /\ IF pm_current_mode_index = index
       THEN /\ Return("switch_mode", index, "Ok")
            /\ UNCHANGED <<curr_mode_handle, stopped_modes, appIndex, appHandle>>
       ELSE IF ~ContainsKey(index)
       THEN /\ Return("switch_mode", index, "Err")
            /\ UNCHANGED <<curr_mode_handle, stopped_modes, appIndex, appHandle>>
       ELSE /\ nTasks + PendingDrivers + 1 + Len(Chains(index)) <= MaxTasks
            /\ appIndex' = index
            /\ UNCHANGED <<lastOp, lastArg, lastRes>>
            /\ IF curr_mode_handle # NoTask
               THEN /\ appHandle' = curr_mode_handle
                    /\ curr_mode_handle' = NoTask
                    /\ stopped_modes' = stopped_modes \cup {pm_current_mode_index}
                    /\ appPc' = "join"
               ELSE /\ appPc' = "set_mode"
                    /\ UNCHANGED <<curr_mode_handle, stopped_modes, appHandle>>
    /\ UNCHANGED <<modes, pm_current_mode_index, memory_modes, mm_current_mode_index,
                   tmOwner, tmPoisoned, task, nTasks>>
    /\ ModeFrame

\* handle.join().unwrap() of switch_mode
SwitchJoin ==
    /\ appPc = "join"
    /\ JoinReady(appHandle)
    /\ IF task[appHandle].pc = "panicked"
       THEN Return("switch_mode", appIndex, "Panic")
       ELSE /\ appPc' = "set_mode"
            /\ UNCHANGED <<lastOp, lastArg, lastRes>>
    /\ appHandle' = NoTask
    /\ UNCHANGED <<modes, pm_current_mode_index, curr_mode_handle, memory_modes,
                   mm_current_mode_index, stopped_modes, tmOwner, tmPoisoned, task,
                   nTasks, appIndex>>
    /\ ModeFrame

\* MemoryManager::get_memory_manager().unwrap().set_mode(self.current_mode_index)
SwitchSetMode ==
    /\ appPc = "set_mode"
    /\ IF mmPoisoned
       THEN /\ Return("switch_mode", appIndex, "Panic")
            /\ UNCHANGED mm_current_mode_index
       ELSE /\ mm_current_mode_index' = pm_current_mode_index
            /\ appPc' = "set_index"
            /\ UNCHANGED <<lastOp, lastArg, lastRes>>
    /\ UNCHANGED <<modes, pm_current_mode_index, curr_mode_handle, memory_modes,
                   stopped_modes, tmOwner, tmPoisoned, task, nTasks, appIndex,
                   appHandle>>
    /\ ModeFrame

\* self.current_mode_index = index
SwitchSetIndex ==
    /\ appPc = "set_index"
    /\ pm_current_mode_index' = appIndex
    /\ appPc' = "spawn"
    /\ UNCHANGED <<modes, curr_mode_handle, memory_modes, mm_current_mode_index,
                   stopped_modes, tmOwner, tmPoisoned, task, nTasks, appIndex,
                   appHandle, lastOp, lastArg, lastRes>>
    /\ ModeFrame

\* TaskManager::get().lock().unwrap(), create_task(new_mode.run) and the return
SwitchSpawn ==
    /\ appPc = "spawn"
    /\ TmLockable
    /\ IF tmPoisoned
       THEN /\ Return("switch_mode", appIndex, "Panic")
            /\ UNCHANGED <<curr_mode_handle, task, nTasks>>
       ELSE /\ nTasks' = nTasks + 1
            /\ task' = [task EXCEPT ![nTasks + 1] =
                         [kind |-> "mode", mode |-> appIndex, chain |-> 0, owner |-> 0,
                          pc |-> "start", handles |-> <<>>]]
            /\ curr_mode_handle' = nTasks + 1
            /\ Return("switch_mode", appIndex, "Ok")
    /\ UNCHANGED <<modes, pm_current_mode_index, memory_modes, mm_current_mode_index,
                   stopped_modes, tmOwner, tmPoisoned, appIndex, appHandle>>
    /\ ModeFrame

\* ProcessorMode::run: TaskManager::get().lock().unwrap(); the guard lives to the
\* end of run
ModeRunLock(t) ==
    /\ task[t].kind = "mode"
    /\ task[t].pc = "start"
    /\ TmLockable
    /\ IF tmPoisoned
       THEN /\ task' = [task EXCEPT ![t].pc = "panicked"]
            /\ UNCHANGED tmOwner
       ELSE /\ tmOwner' = t
            /\ task' = [task EXCEPT ![t].pc =
                         IF Len(Chains(task[t].mode)) = 0 THEN "join" ELSE "spawn"]
    /\ UNCHANGED <<modes, pm_current_mode_index, curr_mode_handle, memory_modes,
                   mm_current_mode_index, stopped_modes, tmPoisoned, nTasks, appPc,
                   appIndex, appHandle, lastOp, lastArg, lastRes>>
    /\ ModeFrame

\* ProcessorMode::run: one turn of the loop that creates a driver task per chain
ModeRunSpawn(t) ==
    /\ task[t].kind = "mode"
    /\ task[t].pc = "spawn"
    /\ nTasks < MaxTasks
    /\ LET c == Len(task[t].handles) + 1
           d == nTasks + 1
       IN /\ nTasks' = d
          /\ task' = [task EXCEPT
                ![d] = [kind |-> "driver", mode |-> task[t].mode, chain |-> c,
                        owner |-> t, pc |-> "loop", handles |-> <<>>],
                ![t].handles = Append(@, d),
                ![t].pc = IF c = Len(Chains(task[t].mode)) THEN "join" ELSE "spawn"]
    /\ UNCHANGED <<modes, pm_current_mode_index, curr_mode_handle, memory_modes,
                   mm_current_mode_index, stopped_modes, tmOwner, tmPoisoned, appPc,
                   appIndex, appHandle, lastOp, lastArg, lastRes>>
    /\ ModeFrame

\* ProcessorMode::run: handle.join().unwrap() for each handle in turn, then Ok(())
ModeRunJoin(t) ==
    /\ task[t].kind = "mode"
    /\ task[t].pc = "join"
    /\ IF task[t].handles = <<>>
       THEN /\ task' = [task EXCEPT ![t].pc = "done"]
            /\ tmOwner' = NoTask
            /\ UNCHANGED tmPoisoned
       ELSE /\ JoinReady(Head(task[t].handles))
            /\ IF task[Head(task[t].handles)].pc = "panicked"
               THEN /\ task' = [task EXCEPT ![t].pc = "panicked", ![t].handles = <<>>]
                    /\ tmOwner' = NoTask
                    /\ tmPoisoned' = TRUE
               ELSE /\ task' = [task EXCEPT ![t].handles = Tail(@)]
                    /\ UNCHANGED <<tmOwner, tmPoisoned>>
    /\ UNCHANGED <<modes, pm_current_mode_index, curr_mode_handle, memory_modes,
                   mm_current_mode_index, stopped_modes, nTasks, appPc, appIndex,
                   appHandle, lastOp, lastArg, lastRes>>
    /\ ModeFrame

\* The driver closure of ProcessorMode::run: loop { chain.process().unwrap(); }
\* entering chain.process()
DriverCall(t) ==
    /\ task[t].kind = "driver"
    /\ task[t].pc = "loop"
    /\ task' = [task EXCEPT ![t].pc = "process"]
    /\ UNCHANGED <<modes, pm_current_mode_index, curr_mode_handle, memory_modes,
                   mm_current_mode_index, stopped_modes, tmOwner, tmPoisoned, nTasks,
                   appPc, appIndex, appHandle, lastOp, lastArg, lastRes>>
    /\ ModeFrame

\* ProcessorChain::process returns: Ok when every node's process() returned Ok
\* (always for a chain without nodes), the first Err otherwise; unwrap panics on Err
DriverReturn(t) ==
    /\ task[t].kind = "driver"
    /\ task[t].pc = "process"
    /\ \E ok \in BOOLEAN :
        /\ (Chains(task[t].mode)[task[t].chain] = 0) => ok
        /\ task' = [task EXCEPT ![t].pc = IF ok THEN "loop" ELSE "panicked"]
    /\ UNCHANGED <<modes, pm_current_mode_index, curr_mode_handle, memory_modes,
                   mm_current_mode_index, stopped_modes, tmOwner, tmPoisoned, nTasks,
                   appPc, appIndex, appHandle, lastOp, lastArg, lastRes>>
    /\ ModeFrame

ModeNext ==
    \/ \E chains \in ChainSeqs : AddMode(chains)
    \/ \E index \in 0..MaxModes : SwitchCall(index)
    \/ SwitchJoin
    \/ SwitchSetMode
    \/ SwitchSetIndex
    \/ SwitchSpawn
    \/ \E t \in TaskIds : ModeRunLock(t)
    \/ \E t \in TaskIds : ModeRunSpawn(t)
    \/ \E t \in TaskIds : ModeRunJoin(t)
    \/ \E t \in TaskIds : DriverCall(t)
    \/ \E t \in TaskIds : DriverReturn(t)


\* ------------------------------------------------- Part II: memory variables

Values == 0..MaxValue

\* Option<[T; 2]>: <<>> is None, <<lo, hi>> is Some([lo, hi])
NoLimits == <<>>
\* A variable is built without limits or with [1, MaxValue - 1]: 0 lies below
\* the range and MaxValue above it.
Limits == {NoLimits, <<1, MaxValue - 1>>}

NoStatics == [exists |-> FALSE, value |-> 0, limits |-> NoLimits, settable |-> FALSE,
              lockPoisoned |-> FALSE]

\* What MemoryManager::get_memory_manager() and get_memory_current_mode() give:
\* "poisoned" (lock() is Err), "nomode" (no MemoryMode at the current index, so
\* .unwrap() panics) or "ok"
MmStatus ==
    IF mmPoisoned THEN "poisoned"
    ELSE IF mm_current_mode_index \in memory_modes THEN "ok"
    ELSE "nomode"

\* Statics::new: the struct it builds
StaticsNew(value, limits) ==
    [exists |-> TRUE, value |-> value, limits |-> limits, settable |-> TRUE,
     lockPoisoned |-> FALSE]

\* Statics::set_value on the variable s while the MemoryManager gives mm: the
\* variable afterwards, the result, and whether update_statics was reached
StaticsSetNoFreeze(s, value, mm) ==
    IF s.lockPoisoned THEN [s |-> s, res |-> "Panic", update |-> FALSE]
    ELSE [s |-> [s EXCEPT !.value = value], res |-> "Ok", update |-> mm = "ok"]
StaticsSetValue(s, value, mm) ==
    IF s.lockPoisoned
    THEN [s |-> s, res |-> "Panic", update |-> FALSE]
    ELSE IF s.settable
    THEN CASE mm = "poisoned" ->
                [s |-> [s EXCEPT !.value = value], res |-> "GenericError",
                 update |-> FALSE]
           [] mm = "nomode" ->
                [s |-> [s EXCEPT !.value = value, !.lockPoisoned = TRUE],
                 res |-> "Panic", update |-> FALSE]
           [] OTHER ->
                [s |-> [s EXCEPT !.value = value, !.settable = FALSE], res |-> "Ok",
                 update |-> TRUE]
    ELSE [s |-> s, res |-> "InvalidOperation", update |-> FALSE]

\* Statics::get_value
StaticsGetValue(s) == s.value

\* StaticsTrait::is_settable
IsSettable(s) == s.settable

VarFrame == UNCHANGED <<modes, pm_current_mode_index, curr_mode_handle, stopped_modes,
                        tmOwner, tmPoisoned, task, nTasks, appPc, appIndex, appHandle,
                        lastOp, lastArg, lastRes, blockVars, laterVars>>

VarRecord(op, arg, res) ==
    /\ vLastOp' = op
    /\ vLastArg' = arg
    /\ vLastRes' = res
    /\ vPre' = statics
    /\ vPreMm' = MmStatus

\* MemoryManager::add_mode(index) by a caller that could lock the manager
MmAddMode(index) ==
    /\ ~mmPoisoned
    /\ memory_modes' = memory_modes \cup {index}
    /\ mapped_statics' = [mapped_statics EXCEPT ![index] = NoClone]
    /\ mapped_parameters' = [mapped_parameters EXCEPT ![index] = NoClone]
    /\ mapped_state' = [mapped_state EXCEPT ![index] = NoClone]
    /\ UNCHANGED <<mm_current_mode_index, mmPoisoned, statics, vFirstWrite, vLastOp,
                   vLastArg, vLastRes, vPre, vPreMm, vRegMode>>
    /\ VarFrame

\* MemoryManager::set_mode(index): any index, a registered mode or not
MmSetMode(index) ==
    /\ ~mmPoisoned
    /\ mm_current_mode_index' = index
    /\ UNCHANGED <<memory_modes, mmPoisoned, statics, mapped_statics, vFirstWrite,
                   mapVars, vLastOp, vLastArg, vLastRes, vPre, vPreMm, vRegMode>>
    /\ VarFrame

\* Statics::new(name, value, limits) with its registration:
\* get_memory_current_mode().unwrap().register_statics(name, clone), whose
\* AlreadyDefined is dropped; a locked-out manager is skipped
StaticsNewCall(value, limits) ==
    /\ CASE MmStatus = "nomode" ->
              /\ mmPoisoned' = TRUE
              /\ VarRecord("statics_new", value, "Panic")
              /\ UNCHANGED <<statics, mapped_statics, vFirstWrite, vRegMode>>
         [] MmStatus = "poisoned" ->
              /\ statics' = StaticsNew(value, limits)
              /\ vFirstWrite' = -1
              /\ vRegMode' = -1
              /\ VarRecord("statics_new", value, "Ok")
              /\ UNCHANGED <<mmPoisoned, mapped_statics>>
         [] OTHER ->
              /\ statics' = StaticsNew(value, limits)
              /\ vFirstWrite' = -1
              /\ mapped_statics' =
                    IF mapped_statics[mm_current_mode_index].exists
                    THEN mapped_statics
                    ELSE [mapped_statics EXCEPT ![mm_current_mode_index] =
                            [exists |-> TRUE, value |-> value, settable |-> TRUE]]
              /\ vRegMode' = IF mapped_statics[mm_current_mode_index].exists
                              THEN -1 ELSE mm_current_mode_index
              /\ VarRecord("statics_new", value, "Ok")
              /\ UNCHANGED mmPoisoned
    /\ UNCHANGED <<memory_modes, mm_current_mode_index, mapVars>>
    /\ VarFrame

\* Statics::set_value(value) with update_statics(name, clone): the clone is taken
\* after the value is written and before settable is cleared
StaticsSetCall(value) ==
    /\ statics.exists
    /\ LET r == StaticsSetValue(statics, value, MmStatus)
       IN /\ statics' = r.s
          /\ mmPoisoned' = (mmPoisoned \/ (r.res = "Panic" /\ ~statics.lockPoisoned))
          /\ mapped_statics' =
                IF r.update
                THEN [mapped_statics EXCEPT ![mm_current_mode_index] =
                        [exists |-> TRUE, value |-> value, settable |-> TRUE]]
                ELSE mapped_statics
          /\ vFirstWrite' = IF r.res = "Ok" /\ vFirstWrite = -1 THEN value
                            ELSE vFirstWrite
          /\ VarRecord("set_value", value, r.res)
    /\ UNCHANGED <<memory_modes, mm_current_mode_index, mapVars, vRegMode>>
    /\ VarFrame

VarInit ==
    /\ statics = NoStatics
    /\ vLastOp = "none"
    /\ vLastArg = 0
    /\ vLastRes = "Ok"
    /\ vPre = NoStatics
    /\ vPreMm = "nomode"
    /\ vFirstWrite = -1
    /\ vRegMode = -1

VarNext ==
    \/ \E index \in ModeIds : MmAddMode(index)
    \/ \E index \in ModeIds : MmSetMode(index)
    \/ \E value \in Values, limits \in Limits : StaticsNewCall(value, limits)
    \/ \E value \in Values : StaticsSetCall(value)

\* ------------------------------------------------------- Part III: blocks

\* "Default": a block with the trait's init, run and stop (TestBlock, the filters);
\* "TcpSender" overrides init; "TcpReceiver" overrides init, run and stop;
\* "UdpReceiver" overrides init, run and stop.
Kinds == {"Default", "TcpSender", "TcpReceiver", "UdpReceiver"}

\* The statics a block of each kind creates in new(): "port" and "address" for the
\* network blocks, any number for the others.
StaticsCounts(kind) == IF kind = "Default" THEN 0..MaxStatics ELSE {2}

Settable == {k \in DOMAIN bStatics : IsSettable(bStatics[k])}

\* StreamBlockDyn::is_initialized: false at the first statics that is settable
IsInitializedAny == \E k \in DOMAIN bStatics : ~IsSettable(bStatics[k])
IsInitialized == \A k \in DOMAIN bStatics : ~IsSettable(bStatics[k])

DefaultInitOnce(state, initialized) ==
    IF state \in {"Running", "Stopped"}
    THEN [state |-> state, res |-> "InvalidStateTransition"]
    ELSE IF ~initialized
    THEN [state |-> state, res |-> "InvalidStatics"]
    ELSE [state |-> "Initial", res |-> "Ok"]

\* StreamProcessor::init, the default; UdpReceiver::init is the same text.
\* The lifecycle state afterwards and the result.
DefaultInit(state, initialized) ==
    IF state = "Running"
    THEN [state |-> state, res |-> "InvalidStateTransition"]
    ELSE IF ~initialized
    THEN [state |-> state, res |-> "InvalidStatics"]
    ELSE [state |-> "Initial", res |-> "Ok"]

\* TcpSender::init and TcpReceiver::init; acquired: TcpStream::connect or
\* TcpListener::bind succeeded
TcpInit(state, initialized, acquired) ==
    IF state = "Running"
    THEN [state |-> "Stopped", res |-> "InvalidStateTransition"]
    ELSE IF ~initialized
    THEN [state |-> state, res |-> "InvalidStatics"]
    ELSE IF ~acquired
    THEN [state |-> "Stopped", res |-> "SendDataError"]
    ELSE [state |-> "Initial", res |-> "Ok"]

BlockFrame == UNCHANGED <<modeVars, mmPoisoned, varVars, bKind, mapVars, laterVars>>

BlockRecord(op, res) ==
    /\ bLastOp' = op
    /\ bLastRes' = res
    /\ bPre' = proc_state
    /\ bPreSettable' = Settable

\* StreamBlock::set_statics_value(key, value) on an existing key: Statics::set_value
BlockSetStatics(k) ==
    /\ k \in DOMAIN bStatics
    /\ MmStatus # "nomode"
    /\ LET r == StaticsSetValue(bStatics[k], 1, MmStatus)
       IN /\ bStatics' = [bStatics EXCEPT ![k] = r.s]
          /\ BlockRecord("set_statics_value", r.res)
    /\ UNCHANGED <<proc_state, bResource, runPc>>
    /\ BlockFrame

\* init(), of the block's kind
BlockInitCall ==
    /\ IF bKind \in {"TcpSender", "TcpReceiver"}
       THEN \E acquired \in BOOLEAN :
               LET r == TcpInit(proc_state, IsInitialized, acquired)
               IN /\ proc_state' = r.state
                  /\ bResource' = (bResource \/ r.res = "Ok")
                  /\ BlockRecord("init", r.res)
       ELSE LET r == DefaultInit(proc_state, IsInitialized)
            IN /\ proc_state' = r.state
               /\ BlockRecord("init", r.res)
               /\ UNCHANGED bResource
    /\ UNCHANGED <<bStatics, runPc>>
    /\ BlockFrame

\* StreamProcessor::run, the default (TcpSender has no other), up to its loop
DefaultRunCall ==
    /\ bKind \in {"Default", "TcpSender"}
    /\ runPc = "idle"
    /\ IF proc_state = "Stopped"
       THEN /\ BlockRecord("run", "InvalidStateTransition")
            /\ UNCHANGED <<proc_state, runPc>>
       ELSE /\ proc_state' = "Running"
            /\ runPc' = "loop"
            /\ BlockRecord("run", "-")
    /\ UNCHANGED <<bStatics, bResource>>
    /\ BlockFrame

\* UdpReceiver::run up to its loop: the socket is bound after the state is set;
\* outcome: what UdpSocket::bind and address.parse() lead to
UdpRunCall ==
    /\ bKind = "UdpReceiver"
    /\ runPc = "idle"
    /\ IF proc_state = "Stopped"
       THEN /\ BlockRecord("run", "InvalidStateTransition")
            /\ UNCHANGED <<proc_state, runPc, bResource>>
       ELSE /\ proc_state' = "Running"
            /\ \E outcome \in {"-", "CreateError", "InvalidStatics"} :
                /\ runPc' = IF outcome = "-" THEN "loop" ELSE "idle"
                /\ bResource' = (bResource \/ outcome = "-")
                /\ BlockRecord("run", outcome)
    /\ UNCHANGED bStatics
    /\ BlockFrame

\* TcpReceiver::run: the state is set first; process() is the accept loop
TcpReceiverRunCall ==
    /\ bKind = "TcpReceiver"
    /\ runPc = "idle"
    /\ IF ~bResource
       THEN /\ proc_state' = "Stopped"
            /\ BlockRecord("run", "SendDataError")
            /\ UNCHANGED runPc
       ELSE /\ proc_state' = "Running"
            /\ runPc' = "process"
            /\ BlockRecord("run", "-")
    /\ UNCHANGED <<bStatics, bResource>>
    /\ BlockFrame

LoopEndsNever(state) == FALSE

\* the test of the loop of run: self.check_state(StreamingState::Stopped)
LoopEnds(state) == state = "Stopped"

\* while !self.check_state(StreamingState::Stopped) { self.process()?; } Ok(())
BlockRunLoop ==
    /\ runPc = "loop"
    /\ IF LoopEnds(proc_state)
       THEN /\ runPc' = "idle"
            /\ BlockRecord("run_loop", "Ok")
       ELSE /\ runPc' = "process"
            /\ BlockRecord("run_loop", "-")
    /\ UNCHANGED <<bStatics, proc_state, bResource>>
    /\ BlockFrame

StateAfterProcessStopped(outcome, state) ==
    IF outcome = "Ok" THEN state ELSE "Stopped"

\* The lifecycle state when process() has returned inside run: `self.process()?`
\* returns the error without a set_state; only TcpSender::process sets Stopped
\* itself, on a failed send
StateAfterProcess(outcome, state) ==
    IF outcome = "ErrStopped" THEN "Stopped" ELSE state

\* process() returns inside run: Ok goes on with the loop, an error ends run with
\* it; TcpSender::process sets Stopped on a failed send; the accept loop of
\* TcpReceiver::process does not return
BlockRunProcess ==
    /\ runPc = "process"
    /\ bKind # "TcpReceiver"
    /\ \E outcome \in {"Ok", "Err", "ErrStopped"} :
        /\ outcome = "ErrStopped" => bKind = "TcpSender"
        /\ runPc' = IF outcome = "Ok" THEN "loop" ELSE "idle"
        /\ proc_state' = StateAfterProcess(outcome, proc_state)
        /\ BlockRecord("process", IF outcome = "Ok" THEN "-" ELSE "ProcessError")
    /\ UNCHANGED <<bStatics, bResource>>
    /\ BlockFrame

\* stop(): the default, and the overrides, which end with the same set_state
BlockStop ==
    /\ proc_state' = "Stopped"
    /\ BlockRecord("stop", "Ok")
    /\ UNCHANGED <<bStatics, bResource, runPc>>
    /\ BlockFrame

\* A block as its new() returns it: state Null and its statics created
BlockInit ==
    /\ bKind \in Kinds
    /\ \E n \in StaticsCounts(bKind) : bStatics = [k \in 1..n |-> StaticsNew(0, NoLimits)]
    /\ proc_state = "Null"
    /\ bResource = FALSE
    /\ runPc = "idle"
    /\ bLastOp = "new"
    /\ bLastRes = "-"
    /\ bPre = "Null"
    /\ bPreSettable = {}

\* No block: the state of Part III in the specifications of the other parts
BlockIdle ==
    /\ bKind = "Default"
    /\ bStatics = <<>>
    /\ proc_state = "Null"
    /\ bResource = FALSE
    /\ runPc = "idle"
    /\ bLastOp = "new"
    /\ bLastRes = "-"
    /\ bPre = "Null"
    /\ bPreSettable = {}

BlockNext ==
    \/ \E k \in 1..MaxStatics : BlockSetStatics(k)
    \/ BlockInitCall
    \/ DefaultRunCall
    \/ UdpRunCall
    \/ TcpReceiverRunCall
    \/ BlockRunLoop
    \/ BlockRunProcess
    \/ BlockStop

\* ------------------------------------------- Part IV: Parameter and State

NoParameter == [exists |-> FALSE, value |-> 0, default |-> 0, limits |-> NoLimits,
                lockPoisoned |-> FALSE]

\* Parameter::new: the struct it builds; value and limits are taken as given
ParameterNew(value, limits) ==
    [exists |-> TRUE, value |-> value, default |-> value, limits |-> limits,
     lockPoisoned |-> FALSE]

\* The test of Parameter::set_value: not (value < limits[0] || value > limits[1])
InLimitsOpen(value, limits) ==
    limits = NoLimits \/ (value > limits[1] /\ value < limits[2])
InLimits(value, limits) ==
    limits = NoLimits \/ ~(value < limits[1] \/ value > limits[2])

\* Parameter::set_value on the variable p while the MemoryManager gives mm: the
\* variable afterwards, the result, and whether update_parameters was reached
ParameterSetValue(p, value, mm) ==
    IF ~InLimits(value, p.limits)
    THEN [p |-> p, res |-> "OutOfRange", update |-> FALSE]
    ELSE IF p.lockPoisoned
    THEN [p |-> p, res |-> "Panic", update |-> FALSE]
    ELSE CASE mm = "poisoned" ->
                [p |-> [p EXCEPT !.value = value], res |-> "GenericError",
                 update |-> FALSE]
           [] mm = "nomode" ->
                [p |-> [p EXCEPT !.value = value, !.lockPoisoned = TRUE],
                 res |-> "Panic", update |-> FALSE]
           [] OTHER ->
                [p |-> [p EXCEPT !.value = value], res |-> "Ok", update |-> TRUE]

\* Parameter::get_value: lock().unwrap(), then the value
ParameterGetValue(p) == IF p.lockPoisoned THEN "Panic" ELSE p.value

\* What a step on the Parameter leaves alone
ParamFrame == UNCHANGED <<modes, pm_current_mode_index, curr_mode_handle, stopped_modes,
                          tmOwner, tmPoisoned, task, nTasks, appPc, appIndex, appHandle,
                          lastOp, lastArg, lastRes, memory_modes, mm_current_mode_index,
                          varVars, blockVars, mapped_state, stateVars, connVars,
                          restVars>>

ParamRecord(op, arg, res) ==
    /\ pLastOp' = op
    /\ pLastArg' = arg
    /\ pLastRes' = res
    /\ pPre' = parameter
    /\ pPreMm' = MmStatus

\* Parameter::new(name, value, limits) with its registration:
\* get_memory_current_mode().unwrap().register_parameters(name, clone).unwrap();
\* a locked-out manager is skipped
ParameterNewCall(value, limits) ==
    /\ CASE MmStatus = "nomode" ->
              /\ mmPoisoned' = TRUE
              /\ ParamRecord("parameter_new", value, "Panic")
              /\ UNCHANGED <<parameter, mapped_parameters>>
         [] MmStatus = "poisoned" ->
              /\ parameter' = ParameterNew(value, limits)
              /\ ParamRecord("parameter_new", value, "Ok")
              /\ UNCHANGED <<mmPoisoned, mapped_parameters>>
         [] OTHER ->
              IF mapped_parameters[mm_current_mode_index].exists
              THEN /\ mmPoisoned' = TRUE
                   /\ ParamRecord("parameter_new", value, "Panic")
                   /\ UNCHANGED <<parameter, mapped_parameters>>
              ELSE /\ parameter' = ParameterNew(value, limits)
                   /\ mapped_parameters' =
                        [mapped_parameters EXCEPT ![mm_current_mode_index] =
                            [exists |-> TRUE, value |-> value, settable |-> TRUE]]
                   /\ ParamRecord("parameter_new", value, "Ok")
                   /\ UNCHANGED mmPoisoned
    /\ ParamFrame

\* Parameter::set_value(value) with update_parameters(name, clone)
ParameterSetCall(value) ==
    /\ parameter.exists
    /\ LET r == ParameterSetValue(parameter, value, MmStatus)
       IN /\ parameter' = r.p
          /\ mmPoisoned' = (mmPoisoned \/ (r.res = "Panic" /\ ~parameter.lockPoisoned))
          /\ mapped_parameters' =
                IF r.update
                THEN [mapped_parameters EXCEPT ![mm_current_mode_index] =
                        [exists |-> TRUE, value |-> value, settable |-> TRUE]]
                ELSE mapped_parameters
          /\ ParamRecord("set_value", value, r.res)
    /\ ParamFrame

ParamInit ==
    /\ parameter = NoParameter
    /\ pLastOp = "none"
    /\ pLastArg = 0
    /\ pLastRes = "Ok"
    /\ pPre = NoParameter
    /\ pPreMm = "nomode"

ParamNext ==
    \/ \E index \in ModeIds : MmAddMode(index)
    \/ \E index \in ModeIds : MmSetMode(index)
    \/ \E value \in Values, limits \in Limits : ParameterNewCall(value, limits)
    \/ \E value \in Values : ParameterSetCall(value)

NoState == [exists |-> FALSE, value |-> 0, lockPoisoned |-> FALSE]

\* State::new: the struct it builds, with no senders
StateNew(value) == [exists |-> TRUE, value |-> value, lockPoisoned |-> FALSE]

\* State::set_value on the variable st while the MemoryManager gives mm: the
\* variable afterwards, the result, and whether update_state was reached
StateSetValue(st, value, mm) ==
    IF st.lockPoisoned
    THEN [st |-> st, res |-> "Panic", update |-> FALSE]
    ELSE CASE mm = "poisoned" ->
                [st |-> [st EXCEPT !.value = value], res |-> "GenericError",
                 update |-> FALSE]
           [] mm = "nomode" ->
                [st |-> [st EXCEPT !.value = value, !.lockPoisoned = TRUE],
                 res |-> "Panic", update |-> FALSE]
           [] OTHER ->
                [st |-> [st EXCEPT !.value = value], res |-> "Ok", update |-> TRUE]

\* let _ = s.send(value) on one channel: queued if its Receiver is alive, dropped
\* with the error otherwise
ChannelSend(ch, value) ==
    IF ch.open THEN [ch EXCEPT !.queue = Append(ch.queue, value)] ELSE ch

\* State::send: the value to every sender, in the order of connect
StateSend(chs, value) == [i \in DOMAIN chs |-> ChannelSend(chs[i], value)]

\* What a step on the State leaves alone
StateFrame == UNCHANGED <<modes, pm_current_mode_index, curr_mode_handle, stopped_modes,
                          tmOwner, tmPoisoned, task, nTasks, appPc, appIndex, appHandle,
                          lastOp, lastArg, lastRes, memory_modes, mm_current_mode_index,
                          varVars, blockVars, mapped_parameters, paramVars, connVars,
                          restVars>>

StateRecord(op, arg, res) ==
    /\ sLastOp' = op
    /\ sLastArg' = arg
    /\ sLastRes' = res
    /\ sPreListeners' = listeners

\* State::new(name, value) with its registration:
\* get_memory_current_mode().unwrap().register_state(name, clone).unwrap();
\* a locked-out manager is skipped
StateNewCall(value) ==
    /\ CASE MmStatus = "nomode" ->
              /\ mmPoisoned' = TRUE
              /\ StateRecord("state_new", value, "Panic")
              /\ UNCHANGED <<state_value, mapped_state, listeners>>
         [] MmStatus = "poisoned" ->
              /\ state_value' = StateNew(value)
              /\ listeners' = <<>>
              /\ StateRecord("state_new", value, "Ok")
              /\ UNCHANGED <<mmPoisoned, mapped_state>>
         [] OTHER ->
              IF mapped_state[mm_current_mode_index].exists
              THEN /\ mmPoisoned' = TRUE
                   /\ StateRecord("state_new", value, "Panic")
                   /\ UNCHANGED <<state_value, mapped_state, listeners>>
              ELSE /\ state_value' = StateNew(value)
                   /\ listeners' = <<>>
                   /\ mapped_state' =
                        [mapped_state EXCEPT ![mm_current_mode_index] =
                            [exists |-> TRUE, value |-> value, settable |-> TRUE]]
                   /\ StateRecord("state_new", value, "Ok")
                   /\ UNCHANGED mmPoisoned
    /\ StateFrame

\* State::connect(sender): the sender of a new channel is pushed
StateConnect ==
    /\ state_value.exists
    /\ Len(listeners) < MaxListeners
    /\ listeners' = Append(listeners, [queue |-> <<>>, open |-> TRUE])
    /\ StateRecord("connect", Len(listeners) + 1, "Ok")
    /\ UNCHANGED <<state_value, mapped_state, mmPoisoned>>
    /\ StateFrame

\* The Receiver of a listener's channel is dropped
ListenerDrop(i) ==
    /\ i \in DOMAIN listeners
    /\ listeners[i].open
    /\ listeners' = [listeners EXCEPT ![i].open = FALSE, ![i].queue = <<>>]
    /\ StateRecord("drop", i, "Ok")
    /\ UNCHANGED <<state_value, mapped_state, mmPoisoned>>
    /\ StateFrame

\* State::set_value(value) with update_state(name, clone)
StateSetCall(value) ==
    /\ state_value.exists
    /\ LET r == StateSetValue(state_value, value, MmStatus)
       IN /\ state_value' = r.st
          /\ mmPoisoned' = (mmPoisoned \/ (r.res = "Panic" /\ ~state_value.lockPoisoned))
          /\ mapped_state' =
                IF r.update
                THEN [mapped_state EXCEPT ![mm_current_mode_index] =
                        [exists |-> TRUE, value |-> value, settable |-> TRUE]]
                ELSE mapped_state
          /\ StateRecord("set_value", value, r.res)
    /\ UNCHANGED listeners
    /\ StateFrame

\* State::send(), called by itself: the listeners' channels are far from full
StateSendCall ==
    /\ state_value.exists
    /\ \A i \in DOMAIN listeners : Len(listeners[i].queue) < MaxSends
    /\ listeners' = StateSend(listeners, state_value.value)
    /\ StateRecord("send", state_value.value, "Ok")
    /\ UNCHANGED <<state_value, mapped_state, mmPoisoned>>
    /\ StateFrame

StateInit ==
    /\ state_value = NoState
    /\ listeners = <<>>
    /\ sLastOp = "none"
    /\ sLastArg = 0
    /\ sLastRes = "Ok"
    /\ sPreListeners = <<>>

StateNext ==
    \/ \E index \in ModeIds : MmAddMode(index)
    \/ \E value \in Values : StateNewCall(value)
    \/ StateConnect
    \/ \E i \in 1..MaxListeners : ListenerDrop(i)
    \/ \E value \in Values : StateSetCall(value)
    \/ StateSendCall

\* ------------------------------------------------------------ Part V: connectors

\* std::sync::mpsc::sync_channel(50) in Input::new
InputCapacity == 50

InputIds == 1..MaxInputs

\* The SyncSenders of the channel of Input i that are alive: the Input's own
\* field, the clones producers hold, the clones pushed into the Output
Senders(i) ==
    (IF in_alive[i] THEN 1 ELSE 0) + in_clones[i]
        + Cardinality({p \in DOMAIN out_senders : out_senders[p] = i})

ChannelRoomAlways(queue) == TRUE

\* a bounded channel takes an item while fewer than its capacity are buffered
ChannelRoom(queue) == Len(queue) < InputCapacity

ChannelFrontLast(queue) == queue[Len(queue)]

\* Receiver::recv returns the oldest buffered item
ChannelFront(queue) == Head(queue)

\* What a step on the connectors leaves alone
ConnFrame == UNCHANGED <<modeVars, mmPoisoned, varVars, blockVars, mapVars,
                         paramVars, stateVars, restVars>>

ConnRecord(op, i, res, waited) ==
    /\ cLastOp' = op
    /\ cLastIn' = i
    /\ cLastRes' = res
    /\ cLastWaited' = waited

ConnKeep == UNCHANGED <<cLastOp, cLastIn, cLastRes, cLastWaited>>

\* A producer enters send: Input::send (who = "own", through &mut self, so not
\* while recv holds the Input) or SyncSender::send on a clone of Input.sender.
InputSendCall(i, who, data) ==
    /\ prodPc[i] = "idle"
    /\ \/ who = "own" /\ in_alive[i] /\ recvPc[i] = "idle"
       \/ who = "clone" /\ in_clones[i] > 0
    /\ prodPc' = [prodPc EXCEPT ![i] = who]
    /\ prodData' = [prodData EXCEPT ![i] = data]
    /\ prodWaited' = [prodWaited EXCEPT ![i] = in_alive[i] /\ ~ChannelRoom(in_queue[i])]
    /\ UNCHANGED <<in_alive, in_queue, in_clones, recvPc, in_sent, in_received,
                   out_senders, outPc, outData, outPre, out_log>>
    /\ ConnKeep
    /\ ConnFrame

\* self.sender.send(data) returns: Err when the Receiver is gone, else Ok once
\* the channel has room for the item
InputSendReturn(i) ==
    /\ prodPc[i] # "idle"
    /\ IF ~in_alive[i]
       THEN /\ ConnRecord("send", i, "SendDataError", prodWaited[i])
            /\ UNCHANGED <<in_queue, in_sent>>
       ELSE /\ ChannelRoom(in_queue[i])
            /\ in_queue' = [in_queue EXCEPT ![i] = Append(@, prodData[i])]
            /\ in_sent' = [in_sent EXCEPT ![i] = Append(@, prodData[i])]
            /\ ConnRecord("send", i, "Ok", prodWaited[i])
    /\ prodPc' = [prodPc EXCEPT ![i] = "idle"]
    /\ UNCHANGED <<in_alive, in_clones, prodData, prodWaited, recvPc, in_received,
                   out_senders, outPc, outData, outPre, out_log>>
    /\ ConnFrame

\* self.receiver.recv() with the thread inside it: the oldest item when one is
\* buffered, Err when none is and no SyncSender of the channel is alive, and
\* otherwise the thread stays (or becomes) blocked
InputRecvTake(i) ==
    IF in_queue[i] # <<>>
    THEN /\ in_queue' = [in_queue EXCEPT ![i] = Tail(@)]
         /\ in_received' = [in_received EXCEPT ![i] = Append(@, ChannelFront(in_queue[i]))]
         /\ recvPc' = [recvPc EXCEPT ![i] = "idle"]
         /\ ConnRecord("recv", i, "Ok", FALSE)
    ELSE IF Senders(i) = 0
    THEN /\ recvPc' = [recvPc EXCEPT ![i] = "idle"]
         /\ ConnRecord("recv", i, "ReceiveDataError", FALSE)
         /\ UNCHANGED <<in_queue, in_received>>
    ELSE /\ recvPc' = [recvPc EXCEPT ![i] = "blocked"]
         /\ ConnKeep
         /\ UNCHANGED <<in_queue, in_received>>

\* Input::recv is called (through &mut self, so not while Input::send holds it)
InputRecvCall(i) ==
    /\ in_alive[i]
    /\ recvPc[i] = "idle"
    /\ prodPc[i] # "own"
    /\ InputRecvTake(i)
    /\ UNCHANGED <<in_alive, in_clones, prodPc, prodData, prodWaited, in_sent,
                   out_senders, outPc, outData, outPre, out_log>>
    /\ ConnFrame

\* the thread blocked in recv is woken by an item or by the last sender's drop
InputRecvWake(i) ==
    /\ recvPc[i] = "blocked"
    /\ in_queue[i] # <<>> \/ Senders(i) = 0
    /\ InputRecvTake(i)
    /\ UNCHANGED <<in_alive, in_clones, prodPc, prodData, prodWaited, in_sent,
                   out_senders, outPc, outData, outPre, out_log>>
    /\ ConnFrame

\* input.sender.clone() given to a producer
CloneSender(i) ==
    /\ in_alive[i] \/ in_clones[i] > 0
    /\ in_clones[i] < MaxClones
    /\ in_clones' = [in_clones EXCEPT ![i] = @ + 1]
    /\ UNCHANGED <<in_alive, in_queue, prodPc, prodData, prodWaited, recvPc, in_sent,
                   in_received, out_senders, outPc, outData, outPre, out_log>>
    /\ ConnKeep
    /\ ConnFrame

\* a producer drops its clone
DropSender(i) ==
    /\ in_clones[i] > 0
    /\ prodPc[i] # "clone" \/ in_clones[i] > 1
    /\ in_clones' = [in_clones EXCEPT ![i] = @ - 1]
    /\ UNCHANGED <<in_alive, in_queue, prodPc, prodData, prodWaited, recvPc, in_sent,
                   in_received, out_senders, outPc, outData, outPre, out_log>>
    /\ ConnKeep
    /\ ConnFrame

\* the Input is dropped: its Receiver goes, with what the channel still buffers
InputDrop(i) ==
    /\ in_alive[i]
    /\ recvPc[i] = "idle"
    /\ prodPc[i] # "own"
    /\ in_alive' = [in_alive EXCEPT ![i] = FALSE]
    /\ in_queue' = [in_queue EXCEPT ![i] = <<>>]
    /\ UNCHANGED <<in_clones, prodPc, prodData, prodWaited, recvPc, in_sent,
                   in_received, out_senders, outPc, outData, outPre, out_log>>
    /\ ConnKeep
    /\ ConnFrame

\* Output::connect(sender) with a clone of the sender of Input i
OutputConnect(i) ==
    /\ outPc = 0
    /\ Senders(i) > 0
    /\ Len(out_senders) < MaxListeners
    /\ out_senders' = Append(out_senders, i)
    /\ UNCHANGED <<in_alive, in_queue, in_clones, prodPc, prodData, prodWaited, recvPc,
                   in_sent, in_received, outPc, outData, outPre, out_log>>
    /\ ConnKeep
    /\ ConnFrame

\* Output::send(data) is called
OutputSendCall(data) ==
    /\ outPc = 0
    /\ outPc' = 1
    /\ outData' = data
    /\ outPre' = in_sent
    /\ UNCHANGED <<in_alive, in_queue, in_clones, prodPc, prodData, prodWaited, recvPc,
                   in_sent, in_received, out_senders, out_log>>
    /\ ConnKeep
    /\ ConnFrame

SenderAtReversed(senders, pc) == senders[Len(senders) + 1 - pc]

\* for s in &self.senders: the sender served at turn pc
SenderAt(senders, pc) == senders[pc]

SendFailsNever(alive) == FALSE

\* s.send(..) is Err exactly when the Receiver of the channel is gone
SendFails(alive) == ~alive

\* One turn of the loop of Output::send: s.send(data.clone()) on the next sender;
\* Err returns SendDataError at once, the end of the vector returns Ok.
OutputSendStep ==
    /\ outPc > 0
    /\ IF outPc > Len(out_senders)
       THEN /\ out_log' = Append(out_log, [data |-> outData, n |-> Len(out_senders),
                                            k |-> Len(out_senders) + 1])
            /\ outPc' = 0
            /\ ConnRecord("output_send", 0, "Ok", FALSE)
            /\ UNCHANGED <<in_queue, in_sent>>
       ELSE IF SendFails(in_alive[SenderAt(out_senders, outPc)])
       THEN /\ out_log' = Append(out_log, [data |-> outData, n |-> Len(out_senders),
                                            k |-> outPc])
            /\ outPc' = 0
            /\ ConnRecord("output_send", 0, "SendDataError", FALSE)
            /\ UNCHANGED <<in_queue, in_sent>>
       ELSE /\ ChannelRoom(in_queue[SenderAt(out_senders, outPc)])
            /\ in_queue' = [in_queue EXCEPT ![SenderAt(out_senders, outPc)] = Append(@, outData)]
            /\ in_sent' = [in_sent EXCEPT ![SenderAt(out_senders, outPc)] = Append(@, outData)]
            /\ outPc' = outPc + 1
            /\ ConnKeep
            /\ UNCHANGED out_log
    /\ UNCHANGED <<in_alive, in_clones, prodPc, prodData, prodWaited, recvPc,
                   in_received, out_senders, outData, outPre>>
    /\ ConnFrame

\* Input::new on every Input and Output::new
ConnInit ==
    /\ in_alive = [i \in InputIds |-> TRUE]
    /\ in_queue = [i \in InputIds |-> <<>>]
    /\ in_clones = [i \in InputIds |-> 0]
    /\ prodPc = [i \in InputIds |-> "idle"]
    /\ prodData = [i \in InputIds |-> 0]
    /\ prodWaited = [i \in InputIds |-> FALSE]
    /\ recvPc = [i \in InputIds |-> "idle"]
    /\ in_sent = [i \in InputIds |-> <<>>]
    /\ in_received = [i \in InputIds |-> <<>>]
    /\ out_senders = <<>>
    /\ outPc = 0
    /\ outData = 0
    /\ outPre = [i \in InputIds |-> <<>>]
    /\ out_log = <<>>
    /\ cLastOp = "none"
    /\ cLastIn = 0
    /\ cLastRes = "-"
    /\ cLastWaited = FALSE

\* One Input with its producers and its consumer
InputNext ==
    \/ \E who \in {"own", "clone"}, data \in Values :
            /\ Len(in_sent[1]) < MaxSends
            /\ InputSendCall(1, who, data)
    \/ InputSendReturn(1)
    \/ InputRecvCall(1)
    \/ InputRecvWake(1)
    \/ CloneSender(1)
    \/ DropSender(1)
    \/ InputDrop(1)

\* One Input filled by a burst of equal items from its producers; an Output
\* connected to it sends when the channel is about to be full
BurstNext ==
    \/ \E who \in {"own", "clone"} :
            /\ Len(in_sent[1]) < MaxBurst
            /\ InputSendCall(1, who, 0)
    \/ InputSendReturn(1)
    \/ InputRecvCall(1)
    \/ InputRecvWake(1)
    \/ CloneSender(1)
    \/ out_senders = <<>> /\ OutputConnect(1)
    \/ /\ out_senders # <<>>
       /\ Len(in_sent[1]) < MaxBurst
       /\ Len(in_queue[1]) + 1 >= InputCapacity
       /\ OutputSendCall(0)
    \/ OutputSendStep

\* The payloads given to Output::send: two that differ are enough to tell the
\* sends apart
Payloads == {0, MaxValue}

\* One Output with the Inputs connected to it; the consumer of the first Input
\* is the one that calls recv
OutputNext ==
    \/ \E i \in InputIds : OutputConnect(i)
    \/ \E data \in Payloads :
            /\ Len(out_log) < MaxSends
            /\ OutputSendCall(data)
    \/ OutputSendStep
    \/ InputRecvCall(1)
    \/ \E i \in InputIds : InputDrop(i)

\* ------------------------------------------------------------ Part VI: chains

\* head: None, tail: None of ProcessorChain::new
NoNode == 0

BlockResults == {"Ok", "Err"}

\* What a read through a pointer to a freed node can give: the node as it was
\* left, a fault that ends the process, or memory that has been reused, where
\* the link to the next node is read as None.
FreedReads == {"intact", "crash", "cut"}

\* The outcomes of a call that reads the given nodes
MemOutcomes(read) == IF read \cap chain_freed = {} THEN {"intact"} ELSE FreedReads

\* What a step on the chain leaves alone
ChainFrame == UNCHANGED <<modeVars, mmPoisoned, varVars, blockVars, mapVars,
                          paramVars, stateVars, connVars, engineVars, regVars, tailVars>>

ChainRecord(op, res, calls, blockRes, mem) ==
    /\ chLastOp' = op
    /\ chLastRes' = res
    /\ chCalls' = calls
    /\ chBlockRes' = blockRes
    /\ chMem' = mem

\* ProcessorChain::add_processor: the node is boxed; with a tail the Box is moved
\* into the tail's next_node (a write through tail, which may dangle), without
\* one only its address is kept in head and the Box is dropped when the function
\* returns; tail and nodes get the address in both cases.
AddProcessor ==
    /\ chLastRes # "Crash"
    /\ Len(chain_nodes) < MaxBlocks
    /\ \E mem \in MemOutcomes({chain_tail}) \ {"cut"} :
        LET node == Len(chain_nodes) + 1 IN
        IF mem = "crash"
        THEN /\ ChainRecord("add_processor", "Crash", <<>>, <<>>, mem)
             /\ UNCHANGED <<chain_head, chain_tail, chain_nodes, chain_freed>>
        ELSE /\ chain_head' = IF chain_tail = NoNode THEN node ELSE chain_head
             /\ chain_freed' = IF chain_tail = NoNode THEN chain_freed \cup {node}
                               ELSE chain_freed
             /\ chain_tail' = node
             /\ chain_nodes' = Append(chain_nodes, node)
             /\ ChainRecord("add_processor", "Ok", <<>>, <<>>, mem)
    /\ UNCHANGED chain_stopped
    /\ ChainFrame

\* the first block whose call returns Err (0: none does)
FirstErr(blockRes) ==
    IF \E k \in DOMAIN blockRes : blockRes[k] = "Err"
    THEN CHOOSE k \in DOMAIN blockRes :
            blockRes[k] = "Err" /\ \A j \in 1..(k - 1) : blockRes[j] = "Ok"
    ELSE 0

\* a loop over the blocks with `?` on each call: the calls made and the result
WalkUntilErr(blockRes) ==
    IF FirstErr(blockRes) = 0
    THEN [calls |-> [k \in DOMAIN blockRes |-> k], res |-> "Ok"]
    ELSE [calls |-> [k \in 1..FirstErr(blockRes) |-> k], res |-> "Err"]

\* ProcessorChain::process: from head along next_node, node.processor.process()?
ChainProcess ==
    /\ chLastRes # "Crash"
    /\ \E blockRes \in [DOMAIN chain_nodes -> BlockResults],
          mem \in MemOutcomes({chain_head}) :
        CASE mem = "intact" ->
                ChainRecord("process", WalkUntilErr(blockRes).res,
                            WalkUntilErr(blockRes).calls, blockRes, mem)
          [] mem = "crash" ->
                ChainRecord("process", "Crash", <<>>, blockRes, mem)
          [] mem = "cut" ->
                ChainRecord("process", blockRes[chain_head], <<chain_head>>, blockRes, mem)
    /\ UNCHANGED <<chain_head, chain_tail, chain_nodes, chain_freed, chain_stopped>>
    /\ ChainFrame

\* ProcessorChain::stop: for each pointer of nodes, node.processor.stop()?;
\* a stop() that returns Ok has set its block to Stopped
ChainStop ==
    /\ chLastRes # "Crash"
    /\ \E blockRes \in [DOMAIN chain_nodes -> BlockResults],
          mem \in MemOutcomes({chain_nodes[k] : k \in DOMAIN chain_nodes}) \ {"cut"} :
        IF mem = "intact"
        THEN /\ ChainRecord("stop", WalkUntilErr(blockRes).res,
                            WalkUntilErr(blockRes).calls, blockRes, mem)
             /\ chain_stopped' = chain_stopped \cup
                    {k \in DOMAIN blockRes :
                        /\ blockRes[k] = "Ok"
                        /\ \E c \in DOMAIN WalkUntilErr(blockRes).calls :
                                WalkUntilErr(blockRes).calls[c] = k}
        ELSE /\ ChainRecord("stop", "Crash", <<>>, blockRes, mem)
             /\ UNCHANGED chain_stopped
    /\ UNCHANGED <<chain_head, chain_tail, chain_nodes, chain_freed>>
    /\ ChainFrame

\* ProcessorChain::new
ChainInit ==
    /\ chain_head = NoNode
    /\ chain_tail = NoNode
    /\ chain_nodes = <<>>
    /\ chain_freed = {}
    /\ chain_stopped = {}
    /\ chLastOp = "new"
    /\ chLastRes = "Ok"
    /\ chCalls = <<>>
    /\ chBlockRes = <<>>
    /\ chMem = "intact"

ChainNext ==
    \/ AddProcessor
    \/ ChainProcess
    \/ ChainStop

\* ------------------------------------------------------------ Part VII: the engine

BlockNames == 1..MaxRegistered

\* The orders in which a HashMap with these keys can be iterated
Orders(keys) ==
    {order \in [1..Cardinality(keys) -> keys] :
        \A i, j \in DOMAIN order : i # j => order[i] # order[j]}

\* init() of a registered block, by its kind
EngineBlockInit(block, acquired) ==
    IF block.kind = "TcpSender"
    THEN TcpInit(block.state, block.initialized, acquired)
    ELSE DefaultInit(block.state, block.initialized)

\* ProcessorEngine::stop from position j of the iteration: value.stop()? on each
\* block; a stop() that returns Ok has set its block to Stopped
RECURSIVE EngineStopFrom(_, _, _, _)
EngineStopFrom(map, order, stopRes, j) ==
    IF j > Len(order) THEN [map |-> map, res |-> "Ok", calls |-> <<>>]
    ELSE IF stopRes[order[j]] = "Err"
    THEN [map |-> map, res |-> "Err", calls |-> <<order[j]>>]
    ELSE LET rest == EngineStopFrom([map EXCEPT ![order[j]].state = "Stopped"],
                                    order, stopRes, j + 1)
         IN [map |-> rest.map, res |-> rest.res, calls |-> <<order[j]>> \o rest.calls]

\* ProcessorEngine::init from position j of the iteration: value.init(); on Err,
\* let _ = self.stop() and return the error
RECURSIVE EngineInitFrom(_, _, _, _, _)
EngineInitFrom(map, order, acquired, stopRes, j) ==
    IF j > Len(order)
    THEN [map |-> map, res |-> "Ok", inits |-> <<>>, stops |-> <<>>, failed |-> 0]
    ELSE LET r == EngineBlockInit(map[order[j]], acquired[order[j]])
             after == [map EXCEPT ![order[j]].state = r.state]
         IN IF r.res = "Ok"
            THEN LET rest == EngineInitFrom(after, order, acquired, stopRes, j + 1)
                 IN [rest EXCEPT !.inits = <<order[j]>> \o @]
            ELSE [map |-> EngineStopFrom(after, order, stopRes, 1).map,
                  res |-> r.res,
                  inits |-> <<order[j]>>,
                  stops |-> EngineStopFrom(after, order, stopRes, 1).calls,
                  failed |-> order[j]]

\* What a step on the engine leaves alone
EngineFrame == UNCHANGED <<modeVars, mmPoisoned, varVars, blockVars, mapVars,
                           paramVars, stateVars, connVars, chainVars, regVars, tailVars>>

EngineRecord(op, arg, res, order, inits, stops, failed) ==
    /\ eLastOp' = op
    /\ eLastArg' = arg
    /\ eLastRes' = res
    /\ eOrder' = order
    /\ eInitCalls' = inits
    /\ eStopCalls' = stops
    /\ eFailed' = failed

\* ProcessorEngine::register_processor(name, processor) with a block as its
\* new() and the writes of its statics have left it
RegisterProcessor(name, kind, initialized) ==
    /\ IF name \in DOMAIN processor_map
       THEN /\ EngineRecord("register_processor", name, "AlreadyDefined", <<>>, <<>>, <<>>, 0)
            /\ UNCHANGED processor_map
       ELSE /\ processor_map' =
                 [n \in DOMAIN processor_map \cup {name} |->
                    IF n = name
                    THEN [kind |-> kind, state |-> "Null", initialized |-> initialized]
                    ELSE processor_map[n]]
            /\ EngineRecord("register_processor", name, "Ok", <<>>, <<>>, <<>>, 0)
    /\ EngineFrame

\* ProcessorEngine::init
EngineInit ==
    /\ \E order \in Orders(DOMAIN processor_map),
          acquired \in [DOMAIN processor_map -> BOOLEAN],
          stopRes \in [DOMAIN processor_map -> BlockResults] :
        LET r == EngineInitFrom(processor_map, order, acquired, stopRes, 1)
        IN /\ processor_map' = r.map
           /\ EngineRecord("init", 0, r.res, order, r.inits, r.stops, r.failed)
    /\ EngineFrame

\* ProcessorEngine::stop
EngineStop ==
    /\ \E order \in Orders(DOMAIN processor_map),
          stopRes \in [DOMAIN processor_map -> BlockResults] :
        LET r == EngineStopFrom(processor_map, order, stopRes, 1)
        IN /\ processor_map' = r.map
           /\ EngineRecord("stop", 0, r.res, order, <<>>, r.calls, 0)
    /\ EngineFrame

\* ProcessorEngine::new
EngineNew ==
    /\ processor_map = <<>>
    /\ eLastOp = "new"
    /\ eLastArg = 0
    /\ eLastRes = "Ok"
    /\ eOrder = <<>>
    /\ eInitCalls = <<>>
    /\ eStopCalls = <<>>
    /\ eFailed = 0

EngineNext ==
    \/ \E name \in BlockNames, kind \in {"Default", "TcpSender"}, initialized \in BOOLEAN :
            RegisterProcessor(name, kind, initialized)
    \/ EngineInit
    \/ EngineStop

\* ------------------------------------------------------------ Part VIII: a block's maps

MapKinds == {"inputs", "outputs", "parameters", "statics", "state"}

\* The local names given to the calls; get_qualified_name puts the block's name
\* and a dot before each, so two local names give the same key exactly when they
\* are equal
LocalNames == {"a", "b"}

\* The element types V of the generic calls
ElementTypes == {"i32", "f64"}

\* The entries of the five maps
Entries == {<<m, k>> \in MapKinds \X LocalNames : k \in DOMAIN block_map[m]}

\* The map each call looks its key up in
MapOf(op) ==
    CASE op \in {"new_input", "get_input", "get_input_channel", "recv_input"} -> "inputs"
      [] op \in {"new_output", "get_output", "connect", "send_output"} -> "outputs"
      [] op \in {"new_parameter", "get_parameter", "get_parameter_value",
                 "set_parameter_value"} -> "parameters"
      [] op \in {"new_statics", "get_statics", "set_statics_value"} -> "statics"
      [] OTHER -> "state"

InvalidCodeByMap(op) ==
    CASE MapOf(op) = "inputs" -> "InvalidInput"
      [] MapOf(op) = "outputs" -> "InvalidOutput"
      [] MapOf(op) = "parameters" -> "InvalidParameter"
      [] OTHER -> "InvalidStatics"

\* The code each accessor returns in the else branch of its lookup
InvalidCode(op) ==
    CASE op \in {"get_input", "get_input_channel", "recv_input"} -> "InvalidInput"
      [] op \in {"get_output", "connect", "send_output"} -> "InvalidOutput"
      [] op \in {"get_parameter", "get_parameter_value", "set_parameter_value",
                 "set_statics_value"} -> "InvalidParameter"
      [] OTHER -> "InvalidStatics"

\* self.<map>.get(qualified_name) and downcast_ref::<..<V>>()
Lookup(op, key, type) ==
    IF key \notin DOMAIN block_map[MapOf(op)] THEN InvalidCode(op)
    ELSE IF block_map[MapOf(op)][key].type # type THEN "WrongType"
    ELSE "found"

\* What a step on the maps leaves alone
RegFrame == UNCHANGED <<modeVars, memory_modes, mm_current_mode_index, varVars,
                        blockVars, mapVars, paramVars, stateVars, connVars, chainVars,
                        engineVars, tailVars>>

RegRecord(op, key, type, res) ==
    /\ rLastOp' = op
    /\ rLastKey' = key
    /\ rLastType' = type
    /\ rLastRes' = res
    /\ rPre' = block_map

NewOps == {"new_input", "new_output", "new_state", "new_parameter", "new_statics"}

HasNameNever(map, key) == FALSE

\* self.<map>.contains_key(qualified_name)
HasName(map, key) == key \in DOMAIN map

\* The object a new_* call builds for its map
NewObject(op) ==
    CASE op = "new_parameter" -> ParameterNew(0, NoLimits)
      [] op = "new_statics" -> StaticsNew(0, NoLimits)
      [] op = "new_state" -> StateNew(0)
      [] OTHER -> [senders |-> 0]

\* new_input, new_output, new_state, new_parameter, new_statics: AlreadyDefined
\* when the key is in the map; else the object is built and inserted. The
\* constructors of the three variables go to the MemoryManager and panic in
\* get_memory_current_mode().unwrap() when its current mode is missing.
RegisterEntry(op, key, type) ==
    /\ IF HasName(block_map[MapOf(op)], key)
       THEN /\ RegRecord(op, key, type, "AlreadyDefined")
            /\ UNCHANGED <<block_map, mmPoisoned>>
       ELSE IF op \in {"new_parameter", "new_statics", "new_state"} /\ MmStatus = "nomode"
       THEN /\ RegRecord(op, key, type, "Panic")
            /\ mmPoisoned' = TRUE
            /\ UNCHANGED block_map
       ELSE /\ Cardinality(Entries \cup {<<MapOf(op), key>>}) <= MaxEntries
            /\ block_map' = [block_map EXCEPT ![MapOf(op)] =
                    [k \in DOMAIN @ \cup {key} |->
                        IF k = key THEN [type |-> type, obj |-> NewObject(op)] ELSE @[k]]]
            /\ RegRecord(op, key, type, "Ok")
            /\ UNCHANGED mmPoisoned
    /\ RegFrame

\* get_input, get_output, get_parameter, get_statics, get_input_channel,
\* recv_input (the item of Input::recv), get_parameter_value: the lookup, and
\* what the entry gives
ReadEntry(op, key, type) ==
    /\ RegRecord(op, key, type,
            IF Lookup(op, key, type) # "found" THEN Lookup(op, key, type)
            ELSE IF op = "get_parameter_value"
                    /\ block_map["parameters"][key].obj.lockPoisoned
            THEN "Panic"
            ELSE "Ok")
    /\ UNCHANGED <<block_map, mmPoisoned>>
    /\ RegFrame

\* connect (Output::connect pushes the sender) and send_output (Output::send,
\* which fails when the Input behind a sender is gone)
WriteOutput(op, key, type) ==
    /\ IF Lookup(op, key, type) # "found"
       THEN /\ RegRecord(op, key, type, Lookup(op, key, type))
            /\ UNCHANGED block_map
       ELSE IF op = "connect"
       THEN /\ block_map["outputs"][key].obj.senders < MaxListeners
            /\ block_map' = [block_map EXCEPT !["outputs"][key].obj.senders = @ + 1]
            /\ RegRecord(op, key, type, "Ok")
       ELSE /\ \E res \in {"Ok", "SendDataError"} :
                /\ res = "SendDataError" => block_map["outputs"][key].obj.senders > 0
                /\ RegRecord(op, key, type, res)
            /\ UNCHANGED block_map
    /\ UNCHANGED mmPoisoned
    /\ RegFrame

\* set_parameter_value and set_statics_value: the lookup, then set_value of the
\* variable
WriteVariable(op, key, type, value) ==
    /\ IF Lookup(op, key, type) # "found"
       THEN /\ RegRecord(op, key, type, Lookup(op, key, type))
            /\ UNCHANGED <<block_map, mmPoisoned>>
       ELSE LET r == IF op = "set_statics_value"
                     THEN StaticsSetValue(block_map["statics"][key].obj, value, MmStatus)
                     ELSE ParameterSetValue(block_map["parameters"][key].obj, value, MmStatus)
                after == IF op = "set_statics_value" THEN r.s ELSE r.p
            IN /\ block_map' = [block_map EXCEPT ![MapOf(op)][key].obj = after]
               /\ RegRecord(op, key, type, r.res)
               /\ mmPoisoned' = (mmPoisoned \/ (r.res = "Panic" /\ MmStatus = "nomode"))
    /\ RegFrame

\* the maps of a block as new() of its struct leaves them
RegInit ==
    /\ block_map = [m \in MapKinds |-> <<>>]
    /\ rLastOp = "new"
    /\ rLastKey = "a"
    /\ rLastType = "i32"
    /\ rLastRes = "Ok"
    /\ rPre = [m \in MapKinds |-> <<>>]

RegNext ==
    \/ \E op \in NewOps,
          key \in LocalNames, type \in ElementTypes : RegisterEntry(op, key, type)
    \/ \E op \in {"get_input", "get_output", "get_parameter", "get_statics",
                  "get_input_channel", "recv_input", "get_parameter_value"},
          key \in LocalNames, type \in ElementTypes : ReadEntry(op, key, type)
    \/ \E op \in {"connect", "send_output"},
          key \in LocalNames, type \in ElementTypes : WriteOutput(op, key, type)
    \/ \E op \in {"set_parameter_value", "set_statics_value"},
          key \in LocalNames, type \in ElementTypes : WriteVariable(op, key, type, MaxValue)

\* ------------------------------------------- Part IX: MemoryMode::serialize_all

\* The variables of Parts I to VIII
olderVars == <<modeVars, mmPoisoned, varVars, blockVars, mapVars, paramVars, stateVars,
               connVars, chainVars, engineVars, regVars>>

VarKinds == {"state", "statics", "parameters"}

\* The names the variables are registered under
VarNames == {"x", "y"}

\* JSON text as its tokens: punctuation, strings and numbers
Punct(text) == [kind |-> "punct", text |-> text]
Str(text) == [kind |-> "string", text |-> text]
Num(value) == [kind |-> "number", text |-> ToString(value)]

\* serialize() of one registered variable: "<qualified_name>":<JSON value>
VarSerialize(name, value) == <<Str(name), Punct(":"), Num(value)>>

\* The loop `for (_, val) in &map { result.push_str(val.serialize()) }` over the
\* map's entries in the order the HashMap gives them
RECURSIVE SerializeMap(_, _, _)
SerializeMap(map, order, i) ==
    IF i > Len(order) THEN <<>>
    ELSE VarSerialize(order[i], map[order[i]]) \o SerializeMap(map, order, i + 1)

\* MemoryMode::serialize_all, push_str by push_str
SerializeAll(mode, orders) ==
    <<Punct("{"), Str("memory_mapped"), Punct(":")>>
    \o <<Punct("{"), Str("state"), Punct(":"), Punct("{")>>
    \o SerializeMap(mode["state"], orders["state"], 1)
    \o <<Punct("}")>>
    \o <<Punct(","), Punct("{"), Str("statics"), Punct(":"), Punct("{")>>
    \o SerializeMap(mode["statics"], orders["statics"], 1)
    \o <<Punct("}")>>
    \o <<Punct(","), Punct("{"), Str("parameters"), Punct(":"), Punct("{")>>
    \o SerializeMap(mode["parameters"], orders["parameters"], 1)
    \o <<Punct("}"), Punct("}")>>

SerFrame == UNCHANGED <<olderVars, monVars, procVars, tcpVars>>

\* The string an earlier serialize_all returned is the caller's, and is gone
\* by the next call on the mode
SerDropped ==
    /\ ser_result' = <<>>
    /\ ser_orders' = [kind \in VarKinds |-> <<>>]

\* register_state, register_statics, register_parameters: AlreadyDefined on a
\* key that is present, else insert
RegisterVariable(kind, name, value) ==
    /\ mem_mode' =
          IF name \in DOMAIN mem_mode[kind] THEN mem_mode
          ELSE [mem_mode EXCEPT ![kind] =
                  [k \in DOMAIN @ \cup {name} |-> IF k = name THEN value ELSE @[k]]]
    /\ SerDropped
    /\ SerFrame

\* update_state, update_statics, update_parameters: insert, overwriting
UpdateVariable(kind, name, value) ==
    /\ mem_mode' = [mem_mode EXCEPT ![kind] =
                      [k \in DOMAIN @ \cup {name} |-> IF k = name THEN value ELSE @[k]]]
    /\ SerDropped
    /\ SerFrame

\* a call of serialize_all
SerializeAllCall ==
    /\ \E orders \in [VarKinds -> UNION {Orders(keys) : keys \in SUBSET VarNames}] :
          /\ \A kind \in VarKinds : orders[kind] \in Orders(DOMAIN mem_mode[kind])
          /\ ser_orders' = orders
          /\ ser_result' = SerializeAll(mem_mode, orders)
    /\ UNCHANGED mem_mode
    /\ SerFrame

\* MemoryMode::new; serialize_all has not been called
SerInit ==
    /\ mem_mode = [kind \in VarKinds |-> <<>>]
    /\ ser_result = <<>>
    /\ ser_orders = [kind \in VarKinds |-> <<>>]

SerNext ==
    \/ \E kind \in VarKinds, name \in VarNames, value \in {0, MaxValue} :
          RegisterVariable(kind, name, value)
    \/ \E kind \in VarKinds, name \in VarNames, value \in {0, MaxValue} :
          UpdateVariable(kind, name, value)
    \/ SerializeAllCall

\* ------------------------------------------------- Part X: the task monitor

RingCapacity == 100

TaskNames == {"t1", "t2"}
ThreadIds == 0..MaxThreads

MonFrame == UNCHANGED <<olderVars, serVars, procVars, tcpVars>>

\* pthread_getcpuclockid(thread_id, &mut cpu_clock_id): the CPU clock of that thread
CpuClockOf(thread_id) == thread_id

PthreadSelfSpawned(caller, spawned) == spawned

\* unsafe { pthread_self() } in create_task: the thread that executes the call
PthreadSelf(caller, spawned) == caller

\* Task::new(name, thread_id)
TaskNew(thread_id) ==
    [thread_id |-> thread_id, cpu_clock_id |-> CpuClockOf(thread_id),
     last_cpu_time |-> 0, occupacy |-> <<>>]

\* TaskManager::create_task(name, f) called by the thread caller: the Task is
\* built and inserted under name, then builder.spawn(f) starts the new thread
CreateTask(caller, name) ==
    /\ caller \in mon_alive
    /\ mon_threads < MaxThreads
    /\ LET spawned == mon_threads + 1
       IN /\ mon_tasks' = [n \in DOMAIN mon_tasks \cup {name} |->
                             IF n = name THEN TaskNew(PthreadSelf(caller, spawned))
                             ELSE mon_tasks[n]]
          /\ mon_threads' = spawned
          /\ mon_alive' = mon_alive \cup {spawned}
          /\ mon_closure' = [n \in DOMAIN mon_closure \cup {name} |->
                               IF n = name THEN spawned ELSE mon_closure[n]]
          /\ mon_pushed' = [n \in DOMAIN mon_pushed \cup {name} |->
                              IF n = name THEN <<>> ELSE mon_pushed[n]]
    /\ UNCHANGED <<mon_cpu, mon_updates>>
    /\ MonFrame

\* A thread runs for a while: its CPU clock advances
ThreadRuns(thread) ==
    /\ thread \in mon_alive
    /\ mon_cpu[thread] < MaxCpu
    /\ mon_cpu' = [mon_cpu EXCEPT ![thread] = @ + 1]
    /\ UNCHANGED <<mon_tasks, mon_threads, mon_alive, mon_closure, mon_pushed, mon_updates>>
    /\ MonFrame

\* The closure of a spawned thread returns
ThreadEnds(thread) ==
    /\ thread \in mon_alive \ {0}
    /\ mon_alive' = mon_alive \ {thread}
    /\ UNCHANGED <<mon_tasks, mon_threads, mon_cpu, mon_closure, mon_pushed, mon_updates>>
    /\ MonFrame

PushKeepAll(ring, sample) == Append(ring, sample)

PushDropNewest(ring, sample) ==
    IF Len(ring) + 1 > RingCapacity THEN ring ELSE Append(ring, sample)

\* occupacy.push_back(occupacy); if occupacy.len() > 100 { occupacy.pop_front(); }
Push(ring, sample) ==
    IF Len(ring) + 1 > RingCapacity THEN Tail(Append(ring, sample))
    ELSE Append(ring, sample)

\* Task::update when clock_gettime succeeds and reads now: the first reading is
\* kept as last_cpu_time; a later one gives the sample cpu_time_diff /
\* wall_time_diff, the wall time between two updates being one interval
TaskUpdate(t, now) ==
    IF t.last_cpu_time = 0 THEN [t EXCEPT !.last_cpu_time = now]
    ELSE [t EXCEPT !.occupacy = Push(@, now - t.last_cpu_time), !.last_cpu_time = now]

\* clock_gettime(cpu_clock_id) fails once the thread of that clock is gone
ClockFails(t) == t.cpu_clock_id \notin mon_alive

\* One iteration of the loop of start_task_monitoring: lock, sleep, update()
\* on every task
MonitorIteration(limit) ==
    /\ mon_updates < limit
    /\ mon_updates' = mon_updates + 1
    /\ mon_tasks' = [n \in DOMAIN mon_tasks |->
                       IF ClockFails(mon_tasks[n]) THEN mon_tasks[n]
                       ELSE TaskUpdate(mon_tasks[n], mon_cpu[mon_tasks[n].cpu_clock_id])]
    /\ mon_pushed' = [n \in DOMAIN mon_pushed |->
                        IF ClockFails(mon_tasks[n]) \/ mon_tasks[n].last_cpu_time = 0
                        THEN mon_pushed[n]
                        ELSE Append(mon_pushed[n],
                                    mon_cpu[mon_tasks[n].cpu_clock_id]
                                        - mon_tasks[n].last_cpu_time)]
    /\ UNCHANGED <<mon_threads, mon_alive, mon_cpu, mon_closure>>
    /\ MonFrame

\* TaskManager::new, and the main thread
MonInit ==
    /\ mon_tasks = <<>>
    /\ mon_threads = 0
    /\ mon_alive = {0}
    /\ mon_cpu = [th \in ThreadIds |-> 0]
    /\ mon_closure = <<>>
    /\ mon_pushed = <<>>
    /\ mon_updates = 0

MonNext ==
    \/ \E caller \in ThreadIds, name \in TaskNames : CreateTask(caller, name)
    \/ \E thread \in ThreadIds : ThreadRuns(thread)
    \/ \E thread \in ThreadIds : ThreadEnds(thread)
    \/ MonitorIteration(MaxSamples)

\* The ring of the one task is neither empty nor nearly full
RingFilling ==
    /\ "t1" \in DOMAIN mon_tasks
    /\ Len(mon_tasks["t1"].occupacy) \in 1..(RingCapacity - 2)

\* One task, watched for more iterations than its ring holds samples; its
\* thread is busy at the start and when the ring is about to be full, and idle
\* in between
RingNext ==
    \/ (mon_tasks = <<>> /\ CreateTask(0, "t1"))
    \/ (~RingFilling /\ ThreadRuns(0))
    \/ MonitorIteration(MaxRing)

\* ---------------------------------------------------------------- Part XI
\* process() of the blocks that have a lock of their own and receive on an input

MaxQueued == 1

ProcKinds == {"CfarProcess", "TcpSender", "Logger"}

ProcFrame == UNCHANGED <<olderVars, serVars, monVars, tcpVars>>

\* CfarProcess::process takes self.lock in its first statement and recv is its
\* second; TcpSender::process and Logger::process receive first
LocksBeforeRecv(k) == k = "CfarProcess"

\* the receiver's recv(): the oldest item, or the thread blocks until one is sent
ProcRecvTake(k) ==
    IF procQueue[k] > 0
    THEN /\ procQueue' = [procQueue EXCEPT ![k] = @ - 1]
         /\ procPc' = [procPc EXCEPT ![k] = "got"]
    ELSE /\ procPc' = [procPc EXCEPT ![k] = "blocked"]
         /\ UNCHANGED procQueue

\* process() is called: TcpSender returns SendDataError without a stream; the
\* CFAR block locks; then each calls recv on its input
ProcCall(k) ==
    /\ procPc[k] = "idle"
    /\ \E stream \in BOOLEAN :
        /\ (k # "TcpSender") => stream
        /\ IF ~stream
           THEN /\ procRes' = [procRes EXCEPT ![k] = "SendDataError"]
                /\ UNCHANGED <<procPc, procLock>>
           ELSE /\ procPc' = [procPc EXCEPT ![k] = "recv"]
                /\ procLock' = [procLock EXCEPT ![k] = LocksBeforeRecv(k)]
                /\ UNCHANGED procRes
    /\ UNCHANGED procQueue
    /\ ProcFrame

\* the thread enters recv
ProcRecv(k) ==
    /\ procPc[k] = "recv"
    /\ ProcRecvTake(k)
    /\ UNCHANGED <<procLock, procRes>>
    /\ ProcFrame

\* the thread blocked in recv is woken by an item
ProcWake(k) ==
    /\ procPc[k] = "blocked"
    /\ procQueue[k] > 0
    /\ ProcRecvTake(k)
    /\ UNCHANGED <<procLock, procRes>>
    /\ ProcFrame

\* after recv: the CFAR block filters, sends both outputs and returns Ok, its
\* guard dropped; TcpSender locks for the write and the read of the reply;
\* Logger locks for the write of an entry below the log level, and returns Ok
\* for any other
ProcGot(k) ==
    /\ procPc[k] = "got"
    /\ \E logged \in BOOLEAN :
        IF k = "CfarProcess" \/ (k = "Logger" /\ ~logged)
        THEN /\ procPc' = [procPc EXCEPT ![k] = "idle"]
             /\ procLock' = [procLock EXCEPT ![k] = FALSE]
             /\ procRes' = [procRes EXCEPT ![k] = "Ok"]
        ELSE /\ procPc' = [procPc EXCEPT ![k] = "io"]
             /\ procLock' = [procLock EXCEPT ![k] = TRUE]
             /\ UNCHANGED procRes
    /\ UNCHANGED procQueue
    /\ ProcFrame

\* the write (and TcpSender's read) ends, the guard is dropped and process()
\* returns Ok, or the block's error
ProcIo(k) ==
    /\ procPc[k] = "io"
    /\ \E ok \in BOOLEAN :
        procRes' = [procRes EXCEPT ![k] =
                      IF ok THEN "Ok"
                      ELSE IF k = "TcpSender" THEN "SendDataError" ELSE "WriteError"]
    /\ procPc' = [procPc EXCEPT ![k] = "idle"]
    /\ procLock' = [procLock EXCEPT ![k] = FALSE]
    /\ UNCHANGED procQueue
    /\ ProcFrame

\* Input::send by a producer of the block's input
ProcSend(k) ==
    /\ procQueue[k] < MaxQueued
    /\ procQueue' = [procQueue EXCEPT ![k] = @ + 1]
    /\ UNCHANGED <<procPc, procLock, procRes>>
    /\ ProcFrame

\* the blocks as new() leaves them, nothing sent to their inputs
ProcInit ==
    /\ procPc = [k \in ProcKinds |-> "idle"]
    /\ procLock = [k \in ProcKinds |-> FALSE]
    /\ procQueue = [k \in ProcKinds |-> 0]
    /\ procRes = [k \in ProcKinds |-> "-"]

ProcNext ==
    \E k \in ProcKinds :
        \/ ProcCall(k)
        \/ ProcRecv(k)
        \/ ProcWake(k)
        \/ ProcGot(k)
        \/ ProcIo(k)
        \/ ProcSend(k)

\* --------------------------------------------------------------- Part XII
\* TcpReceiver: the handler tasks, the process-wide stop flag and stop()

MaxHandlers == 3

HandlerIds == 1..MaxHandlers

TcpSources == {"tcp_receiver", "tcp_interface"}

TcpFrame == UNCHANGED <<olderVars, serVars, monVars, procVars>>

\* OnceLock::get_or_init(|| Arc::new(Mutex::new(value))): the cell afterwards
GetOrInit(cell, value) == IF cell = "unset" THEN value ELSE cell

\* the accept loop: a connection comes in and create_task spawns its handler,
\* whose JoinHandle is pushed on tcp_handle
TcpAccept ==
    /\ tcp_proc_state = "Running"
    /\ tcpStopPc = "idle"
    /\ Len(tcp_handle) < MaxHandlers
    /\ LET h == Len(tcp_handle) + 1
       IN /\ tcp_handle' = Append(tcp_handle, h)
          /\ handlerPc' = [handlerPc EXCEPT ![h] =
                             IF tcp_source = "tcp_receiver" THEN "check" ELSE "read"]
    /\ UNCHANGED <<tcp_source, THREAD_EXIT, tcpStopPc, tcp_proc_state>>
    /\ TcpFrame

\* receiver_loop of tcp_receiver.rs, one turn: THREAD_EXIT.get().unwrap() panics
\* on the unset cell; a true flag breaks; otherwise handle_stream, whose error
\* breaks
ReceiverLoop(h) ==
    /\ tcp_source = "tcp_receiver"
    /\ handlerPc[h] = "check"
    /\ \E ok \in BOOLEAN :
        handlerPc' = [handlerPc EXCEPT ![h] =
                        IF THREAD_EXIT = "unset" THEN "panicked"
                        ELSE IF THREAD_EXIT = "true" THEN "done"
                        ELSE IF ok THEN "check" ELSE "done"]
    /\ UNCHANGED <<tcp_source, THREAD_EXIT, tcp_handle, tcpStopPc, tcp_proc_state>>
    /\ TcpFrame

\* handle_client of tcp_interface.rs, the first half of a turn: stream.read
\* returns and the data is forwarded, or the answer to bad data cannot be
\* written and the loop breaks
HandleClientRead(h) ==
    /\ tcp_source = "tcp_interface"
    /\ handlerPc[h] = "read"
    /\ \E written \in BOOLEAN :
        handlerPc' = [handlerPc EXCEPT ![h] = IF written THEN "check" ELSE "done"]
    /\ UNCHANGED <<tcp_source, THREAD_EXIT, tcp_handle, tcpStopPc, tcp_proc_state>>
    /\ TcpFrame

\* handle_client, the second half: the flag is read through
\* get_or_init(|| Arc::new(Mutex::new(false))), and true breaks the loop
HandleClientCheck(h) ==
    /\ tcp_source = "tcp_interface"
    /\ handlerPc[h] = "check"
    /\ THREAD_EXIT' = GetOrInit(THREAD_EXIT, "false")
    /\ handlerPc' = [handlerPc EXCEPT ![h] = IF THREAD_EXIT' = "true" THEN "done" ELSE "read"]
    /\ UNCHANGED <<tcp_source, tcp_handle, tcpStopPc, tcp_proc_state>>
    /\ TcpFrame

\* stop(): THREAD_EXIT.get_or_init(|| Arc::new(Mutex::new(true)))
TcpStopCall ==
    /\ tcpStopPc = "idle"
    /\ THREAD_EXIT' = GetOrInit(THREAD_EXIT, "true")
    /\ tcpStopPc' = "join"
    /\ UNCHANGED <<tcp_source, tcp_handle, handlerPc, tcp_proc_state>>
    /\ TcpFrame

\* stop(): for j in self.tcp_handle.drain(..) { let _ = j.join(); }, then
\* set_state(Stopped) and Ok(())
TcpStopJoin ==
    /\ tcpStopPc = "join"
    /\ IF tcp_handle = <<>>
       THEN /\ tcp_proc_state' = "Stopped"
            /\ tcpStopPc' = "done"
            /\ UNCHANGED tcp_handle
       ELSE /\ handlerPc[Head(tcp_handle)] \in {"done", "panicked"}
            /\ tcp_handle' = Tail(tcp_handle)
            /\ UNCHANGED <<tcp_proc_state, tcpStopPc>>
    /\ UNCHANGED <<tcp_source, THREAD_EXIT, handlerPc>>
    /\ TcpFrame

\* a TcpReceiver in its accept loop, no connection yet, the flag never touched
TcpRcvStart(sources) ==
    /\ tcp_source \in sources
    /\ THREAD_EXIT = "unset"
    /\ tcp_handle = <<>>
    /\ handlerPc = [h \in HandlerIds |-> "none"]
    /\ tcpStopPc = "idle"
    /\ tcp_proc_state = "Running"

TcpRcvInit == TcpRcvStart(TcpSources)

\* The state of Part XII in the specifications of the other parts
TcpRcvIdle == TcpRcvStart({"tcp_receiver"})

TcpRcvNext ==
    \/ TcpAccept
    \/ \E h \in HandlerIds : ReceiverLoop(h)
    \/ \E h \in HandlerIds : HandleClientRead(h)
    \/ \E h \in HandlerIds : HandleClientCheck(h)
    \/ TcpStopCall
    \/ TcpStopJoin

EarlierInit == ChainInit /\ EngineNew /\ RegInit /\ SerInit /\ MonInit /\ ProcInit

RestInit == EarlierInit /\ TcpRcvIdle

\* ------------------------------------------------------------ specifications

Init ==
    /\ PmInit /\ MmInit /\ VarInit /\ BlockIdle /\ ParamInit /\ StateInit /\ ConnInit
    /\ RestInit

Next == ModeNext

\* The memory variables alone, with the MemoryManager they register in.
VarSpec == Init /\ [][VarNext]_vars

\* One block, built after add_mode(0); the MemoryManager mutex may have been
\* poisoned by an earlier panic.
BlockSpecInit ==
    /\ PmInit
    /\ memory_modes = {0}
    /\ mm_current_mode_index = 0
    /\ mmPoisoned \in BOOLEAN
    /\ mapped_statics = [m \in ModeIds |-> NoClone]
    /\ mapped_parameters = [m \in ModeIds |-> NoClone]
    /\ mapped_state = [m \in ModeIds |-> NoClone]
    /\ VarInit
    /\ BlockInit
    /\ ParamInit
    /\ StateInit
    /\ ConnInit
    /\ RestInit

BlockSpec == BlockSpecInit /\ [][BlockNext]_vars

\* The thread inside run() is scheduled, and every process() it calls returns;
\* when init(), run() and stop() are called is the caller's choice.
\* The three blocks with a lock of their own, each in its driver, and the
\* producers of their inputs.
ProcSpec == Init /\ [][ProcNext]_vars

\* One TcpReceiver, its handler tasks and the thread that stops it.
TcpRcvSpecInit ==
    /\ PmInit /\ MmInit /\ VarInit /\ BlockIdle /\ ParamInit /\ StateInit /\ ConnInit
    /\ EarlierInit
    /\ TcpRcvInit

TcpRcvSpec == TcpRcvSpecInit /\ [][TcpRcvNext]_vars

FairBlockSpec ==
    /\ BlockSpec
    /\ WF_vars(BlockRunLoop)
    /\ WF_vars(BlockRunProcess)

\* The modes and their switches, with a Statics that is built and written while
\* they run.
SnapNext ==
    \/ ModeNext
    \/ StaticsNewCall(0, NoLimits)
    \/ StaticsSetCall(MaxValue)

SnapSpec == Init /\ [][SnapNext]_vars

\* One Parameter, with the MemoryManager it registers in.
ParamSpec == Init /\ [][ParamNext]_vars

\* One State with its listeners, with the MemoryManager it registers in.
StateSpec == Init /\ [][StateNext]_vars

\* One Input, its producers and its consumer.
InputSpec == Init /\ [][InputNext]_vars

\* One Input under a burst of sends.
BurstSpec == Init /\ [][BurstNext]_vars

\* One Output and the Inputs behind its senders.
OutputSpec == Init /\ [][OutputNext]_vars

\* One chain: blocks are added, and process and stop are called on it.
ChainSpec == Init /\ [][ChainNext]_vars

\* The engine: blocks are registered, and init and stop are called on it.
EngineSpec == Init /\ [][EngineNext]_vars

\* The maps of one block, built after add_mode(0).
RegSpecInit ==
    /\ PmInit
    /\ memory_modes = {0}
    /\ mm_current_mode_index = 0
    /\ mmPoisoned = FALSE
    /\ mapped_statics = [m \in ModeIds |-> NoClone]
    /\ mapped_parameters = [m \in ModeIds |-> NoClone]
    /\ mapped_state = [m \in ModeIds |-> NoClone]
    /\ VarInit
    /\ BlockIdle
    /\ ParamInit
    /\ StateInit
    /\ ConnInit
    /\ RestInit

RegSpec == RegSpecInit /\ [][RegNext]_vars

SerSpec == Init /\ [][SerNext]_vars

MonSpec == Init /\ [][MonNext]_vars

RingSpec == Init /\ [][RingNext]_vars

Spec == Init /\ [][Next]_vars

\* Every spawned thread is scheduled, and a call of switch_mode in progress goes on;
\* when the application calls add_mode or switch_mode is its own choice.
TaskStep(t) ==
    ModeRunLock(t) \/ ModeRunSpawn(t) \/ ModeRunJoin(t) \/ DriverCall(t) \/ DriverReturn(t)

SwitchStep == SwitchJoin \/ SwitchSetMode \/ SwitchSetIndex \/ SwitchSpawn

FairSpec ==
    /\ Spec
    /\ WF_vars(SwitchStep)
    /\ \A t \in TaskIds : WF_vars(TaskStep(t))

\* ---------------------------------------------------------- claims, Part I

DriverAlive(t) == task[t].kind = "driver" /\ task[t].pc \in {"loop", "process"}

\* C1: at most one mode is active: no driver executes chain.process() while a
\* driver spawned by another run of a mode (the previously running one) is
\* still alive.
C1_OneModeActive ==
    \A d1, d2 \in TaskIds :
        (task[d1].kind = "driver" /\ task[d1].pc = "process" /\ DriverAlive(d2))
            => task[d1].owner = task[d2].owner

\* C1 witness: switch_mode has stopped and joined a running mode, returned Ok,
\* and a chain of the new mode is inside process().
C1_Witness ==
    /\ lastOp = "switch_mode" /\ lastRes = "Ok" /\ appPc = "idle"
    /\ \E d, t \in TaskIds :
        /\ task[d].kind = "driver" /\ task[d].pc = "process"
        /\ task[d].owner = curr_mode_handle
        /\ task[t].kind = "mode" /\ task[t].pc = "done"
        /\ task[t].mode \in stopped_modes

\* C2 (as claimed): once switch_mode(i) has returned Ok for a registered i, the
\* manager holds the join handle of a driver task running mode i.
C2_DriverSpawnedAfterOk ==
    (appPc = "idle" /\ lastOp = "switch_mode" /\ lastRes = "Ok" /\ ContainsKey(lastArg))
        => (curr_mode_handle # NoTask /\ task[curr_mode_handle].mode = lastArg)

\* C3 (as claimed): after every switch_mode call that returned, the Memory
\* Manager's mode index equals the Processor Manager's.
C3_IndicesMoveTogether ==
    (appPc = "idle" /\ lastOp = "switch_mode" /\ lastRes \in {"Ok", "Err"})
        => mm_current_mode_index = pm_current_mode_index

\* C4 (as claimed): once switch_mode has issued stop() on the running mode and
\* waits in handle.join(), the drivers leave their loops, the join completes and
\* switch_mode returns.
C4_SwitchQuiesces == (appPc = "join") ~> (appPc = "idle")

\* C5 (as claimed): run() on a block in state Null does not set Running.
C5_NoRunFromNull ==
    (bLastOp = "run" /\ bPre = "Null") => proc_state # "Running"

C7_InitKeepsRunning ==
    (bLastOp = "init" /\ bPre = "Running")
        => (bLastRes = "InvalidStateTransition" /\ proc_state = "Running")

\* C8 (as claimed): run() on a Stopped block returns InvalidStateTransition, does
\* not set Running and does not enter process().
C8_NoRunFromStopped ==
    (bLastOp = "run" /\ bPre = "Stopped")
        => (bLastRes = "InvalidStateTransition" /\ proc_state = "Stopped" /\ runPc = "idle")

C10_OutOfRangeRejected ==
    (/\ vLastOp = "set_value"
     /\ vPre.limits # NoLimits
     /\ (vLastArg < vPre.limits[1] \/ vLastArg > vPre.limits[2]))
        => (vLastRes = "OutOfRange" /\ StaticsGetValue(statics) = StaticsGetValue(vPre))

C12_ValueWithinLimits ==
    (parameter.exists /\ parameter.limits # NoLimits)
        => (parameter.limits[1] <= parameter.value
            /\ parameter.value <= parameter.limits[2])

\* C13 (as claimed): a State.set_value(v) that returned Ok has stored v and has
\* put v on the channel of every connected listener whose receiver is alive.
C13_SetValueBroadcasts ==
    (sLastOp = "set_value" /\ sLastRes = "Ok")
        => /\ state_value.value = sLastArg
           /\ \A i \in DOMAIN listeners :
                listeners[i].open
                    => listeners[i].queue = Append(sPreListeners[i].queue, sLastArg)

\* C14 (as claimed): after a set_value that returned Ok on a variable that was
\* registered at its construction, the entry under the variable's name in the
\* memory mode it was registered in holds the variable's current value.
C14_RegisteredCloneCurrent ==
    (/\ statics.exists /\ vRegMode # -1
     /\ vLastOp = "set_value" /\ vLastRes = "Ok"
     /\ mapped_statics[vRegMode].exists)
        => mapped_statics[vRegMode].value = StaticsGetValue(statics)

\* C15 (as claimed): while a mode started by switch_mode is active, a set_value
\* modifies no entry of the memory mode of any other mode, the mode that was left
\* among them.
C15_OldSnapshotKept ==
    [][(/\ appPc = "idle" /\ curr_mode_handle # NoTask
        /\ lastOp = "switch_mode" /\ lastRes = "Ok"
        /\ vLastOp' = "set_value")
            => \A m \in memory_modes \ {pm_current_mode_index} :
                    mapped_statics'[m] = mapped_statics[m]]_vars

\* C16: on an Input, the sequence of values recv has returned is a prefix of the
\* sequence of values sent into it, in the same order; while the Input lives,
\* what was sent and not yet returned is exactly what the channel buffers, so
\* nothing is lost and nothing is delivered twice.
C16_FifoPrefix ==
    \A i \in InputIds :
        /\ Len(in_received[i]) <= Len(in_sent[i])
        /\ SubSeq(in_sent[i], 1, Len(in_received[i])) = in_received[i]
        /\ in_alive[i] => in_sent[i] = in_received[i] \o in_queue[i]

\* two different values were sent, by the Input and by a clone of its sender, and
\* both have been received
C16_Witness ==
    /\ cLastOp = "recv"
    /\ Len(in_received[1]) = 2
    /\ in_received[1][1] # in_received[1][2]
    /\ in_clones[1] > 0

\* C17: an Input never buffers more than 50 items; a send that finds 50 items
\* buffered (Input::send, a send through a clone of its sender, or the turn of
\* Output::send on a sender of that Input) cannot return while they stay 50, can
\* return as soon as there is room, and when it has returned Ok a recv has
\* removed an item in between.
C17_CapacityBlocks ==
    /\ \A i \in InputIds : Len(in_queue[i]) <= InputCapacity
    /\ \A i \in InputIds :
          (prodPc[i] # "idle" /\ in_alive[i])
              => (ENABLED InputSendReturn(i) <=> Len(in_queue[i]) < InputCapacity)
    /\ (outPc \in 1..Len(out_senders) /\ in_alive[out_senders[outPc]])
          => (ENABLED OutputSendStep <=> Len(in_queue[out_senders[outPc]]) < InputCapacity)
    /\ (cLastOp = "send" /\ cLastRes = "Ok" /\ cLastWaited)
          => Len(in_received[cLastIn]) > 0

\* a send that was called with 50 items buffered has returned Ok, and the channel
\* is full again
C17_Witness ==
    /\ cLastOp = "send" /\ cLastRes = "Ok" /\ cLastWaited
    /\ Len(in_queue[1]) = InputCapacity
    /\ Len(in_received[1]) > 0

\* C18 (as claimed): recv on an Input whose queue is empty and whose senders have
\* all been dropped by their holders (no clone is held by a producer, none by an
\* Output) returns ReceiveDataError: it does not stay blocked.
C18_RecvErrorWhenSendersDropped ==
    \A i \in InputIds :
        (/\ in_alive[i] /\ in_queue[i] = <<>>
         /\ in_clones[i] = 0
         /\ \A p \in DOMAIN out_senders : out_senders[p] # i)
            => recvPc[i] # "blocked"

\* How many of the first upto senders of the Output belong to Input i
Served(i, upto) == Cardinality({p \in 1..upto : out_senders[p] = i})

RECURSIVE Repeat(_, _)
Repeat(value, times) == IF times = 0 THEN <<>> ELSE <<value>> \o Repeat(value, times - 1)

\* What the sends of a log have put into Input i: the payload of each send, once
\* for every sender of i that comes before the position the send ended at
RECURSIVE Delivered(_, _)
Delivered(i, log) ==
    IF log = <<>> THEN <<>>
    ELSE Delivered(i, SubSeq(log, 1, Len(log) - 1))
            \o Repeat(log[Len(log)].data, Served(i, log[Len(log)].k - 1))

C20_FailureStops ==
    /\ (cLastOp = "output_send" /\ cLastRes = "SendDataError" /\ outPc = 0)
          => /\ out_log[Len(out_log)].k \in 1..out_log[Len(out_log)].n
             /\ ~in_alive[out_senders[out_log[Len(out_log)].k]]
             /\ \A i \in InputIds :
                   /\ in_sent[i] = outPre[i] \o Repeat(out_log[Len(out_log)].data,
                                                       Served(i, out_log[Len(out_log)].k - 1))
                   /\ in_alive[i] => in_sent[i] = in_received[i] \o in_queue[i]
    /\ \A i \in InputIds : ~in_alive[i] => in_queue[i] = <<>>

\* a send to the senders of Inputs 1 and 2 failed at the second: Input 1 holds
\* the item, Input 2 got nothing
C20_Witness ==
    /\ cLastOp = "output_send" /\ cLastRes = "SendDataError" /\ outPc = 0
    /\ out_senders = <<1, 2>>
    /\ out_log[Len(out_log)].k = 2
    /\ in_alive[1] /\ ~in_alive[2]
    /\ in_queue[1] = outPre[1] \o <<out_log[Len(out_log)].data>>
    /\ in_sent[2] = outPre[2]

\* C21 (as claimed): a call of ProcessorChain::process calls process() once on each
\* block, in the order of add_processor, up to and including the first block that
\* returns an error, and returns that error, or Ok when no block fails.
C21_ProcessInOrder ==
    chLastOp = "process"
        => /\ chCalls = [j \in 1..(IF FirstErr(chBlockRes) = 0 THEN Len(chain_nodes)
                                    ELSE FirstErr(chBlockRes)) |-> chain_nodes[j]]
           /\ chLastRes = IF FirstErr(chBlockRes) = 0 THEN "Ok" ELSE "Err"

\* C22 (as claimed): a call of ProcessorChain::stop whose reads of the nodes found
\* them as they were left has called stop() on every block of the chain.
C22_StopReachesEveryBlock ==
    (chLastOp = "stop" /\ chMem = "intact") => chCalls = chain_nodes

\* C23 (as claimed): when ProcessorEngine::init returns an error, it is the error
\* of the block whose init() failed and stop() has been called on every registered
\* block; when it returns Ok, every registered block is in Initial.
C23_InitStopsAllOnFailure ==
    eLastOp = "init"
        => IF eLastRes = "Ok"
           THEN \A n \in DOMAIN processor_map : processor_map[n].state = "Initial"
           ELSE /\ eFailed \in DOMAIN processor_map
                /\ eInitCalls[Len(eInitCalls)] = eFailed
                /\ {eStopCalls[c] : c \in DOMAIN eStopCalls} = DOMAIN processor_map

\* C24 (as claimed): a call of ProcessorEngine::stop has called stop() on every
\* registered block, whatever the stop() of another block returned.
C24_StopIgnoresFailures ==
    eLastOp = "stop"
        => {eStopCalls[c] : c \in DOMAIN eStopCalls} = DOMAIN processor_map

\* C25: a new_input, new_output, new_parameter, new_statics or new_state call
\* whose local name is already in its map returns AlreadyDefined and leaves
\* the maps, the first entry included, as they were.
C25_SecondRegistrationRejected ==
    (rLastOp \in NewOps /\ rLastKey \in DOMAIN rPre[MapOf(rLastOp)])
        => /\ rLastRes = "AlreadyDefined"
           /\ block_map = rPre

\* a second registration under another element type, after the first entry's
\* value was set, was rejected
C25_Witness ==
    /\ rLastOp = "new_statics"
    /\ rLastKey \in DOMAIN rPre["statics"]
    /\ rPre["statics"][rLastKey].type # rLastType
    /\ rPre["statics"][rLastKey].obj.value = MaxValue
    /\ rLastRes = "AlreadyDefined"

\* C26 (as claimed): an accessor called with a name that is not in its map
\* returns the Invalid* code of that map (InvalidInput, InvalidOutput,
\* InvalidParameter, InvalidStatics), and WrongType when the name is stored
\* under another element type.
C26_AccessorErrorCodes ==
    rLastOp \notin NewOps \cup {"new"}
        => /\ rLastKey \notin DOMAIN rPre[MapOf(rLastOp)]
                => rLastRes = InvalidCodeByMap(rLastOp)
           /\ (/\ rLastKey \in DOMAIN rPre[MapOf(rLastOp)]
               /\ rPre[MapOf(rLastOp)][rLastKey].type # rLastType)
                => rLastRes = "WrongType"

\* What switch_mode can change: the manager's index, the running mode and its
\* handle, the threads, the MemoryManager's index.
ManagerState ==
    <<modes, pm_current_mode_index, curr_mode_handle, memory_modes,
      mm_current_mode_index, stopped_modes, tmOwner, tmPoisoned, task, nTasks>>

ChainDrivers(m, c) ==
    {t \in TaskIds : DriverAlive(t) /\ task[t].mode = m /\ task[t].chain = c}

\* C28: over any sequence of add_mode and switch_mode calls, each chain of a
\* mode has at most one driver task executing its process loop.
C28_OneDriverPerChain ==
    \A m \in ModeIds : \A c \in 1..MaxChains : Cardinality(ChainDrivers(m, c)) <= 1

\* switch_mode has been called away from a mode (its blocks were stopped) and
\* then with that mode's index again, and a driver of the mode is executing
\* its loop
C28_Witness ==
    /\ appPc = "idle"
    /\ lastOp = "switch_mode" /\ lastArg = pm_current_mode_index
    /\ pm_current_mode_index \in stopped_modes
    /\ \E t \in TaskIds : DriverAlive(t) /\ task[t].mode = pm_current_mode_index

\* C29 (as claimed): when chain.process() has failed in one driver of a mode,
\* only that driver has terminated: the thread that runs the mode is still
\* running it, and the drivers of the other chains that have not failed
\* themselves are still executing their loops.
C29_FailureIsolated ==
    \A t \in TaskIds :
        (task[t].kind = "driver" /\ task[t].pc = "panicked")
            => /\ task[task[t].owner].pc \notin {"done", "panicked"}
               /\ \A u \in TaskIds :
                     (task[u].kind = "driver" /\ task[u].owner = task[t].owner
                        /\ task[u].pc # "panicked") => DriverAlive(u)

\* C30 (as claimed): a Statics constructed while the MemoryManager holds no mode
\* at its current index (before add_mode(0)) is returned to the caller, usable
\* and holding the given value, and nothing is registered or otherwise changed
\* in the MemoryManager.
C30_MissingModeTolerated ==
    (vLastOp = "statics_new" /\ vPreMm = "nomode")
        => /\ vLastRes = "Ok"
           /\ statics.exists /\ StaticsGetValue(statics) = vLastArg
           /\ vRegMode = -1
           /\ ~mmPoisoned

\* C31 (as claimed): a set_value on a Parameter called while the MemoryManager
\* is missing (its mutex cannot be locked, or it holds no mode at its current
\* index) comes back to the caller with an error value: it neither succeeds
\* nor panics.
C31_SetValuePropagatesError ==
    (pLastOp = "set_value" /\ pPreMm \in {"nomode", "poisoned"}
        /\ InLimits(pLastArg, pPre.limits) /\ ~pPre.lockPoisoned)
        => pLastRes \notin {"Ok", "Panic"}

\* A JSON value starts at token i of t: the position after it, or 0 when the
\* tokens from i on do not start with a value
RECURSIVE C32_Value(_, _), C32_Members(_, _)
C32_Value(t, i) ==
    IF i > Len(t) THEN 0
    ELSE IF t[i].kind \in {"string", "number"} THEN i + 1
    ELSE IF t[i] # Punct("{") THEN 0
    ELSE IF i + 1 <= Len(t) /\ t[i + 1] = Punct("}") THEN i + 2
    ELSE C32_Members(t, i + 1)

\* The members of an object from token i on, up to its closing brace
C32_Members(t, i) ==
    IF i + 1 > Len(t) \/ t[i].kind # "string" \/ t[i + 1] # Punct(":") THEN 0
    ELSE LET j == C32_Value(t, i + 2)
         IN IF j = 0 \/ j > Len(t) THEN 0
            ELSE IF t[j] = Punct("}") THEN j + 1
            ELSE IF t[j] = Punct(",") THEN C32_Members(t, j + 1)
            ELSE 0

\* The braces of t are balanced
C32_Balanced(t) ==
    Cardinality({i \in DOMAIN t : t[i] = Punct("{")})
        = Cardinality({i \in DOMAIN t : t[i] = Punct("}")})

\* C32 (as claimed): whatever the memory mode holds, what serialize_all returns
\* is one well-formed JSON object with balanced braces, and it names each
\* registered variable once.
C32_SnapshotWellFormed ==
    ser_result # <<>>
        => /\ C32_Balanced(ser_result)
           /\ C32_Value(ser_result, 1) = Len(ser_result) + 1
           /\ \A kind \in VarKinds : \A name \in DOMAIN mem_mode[kind] :
                 \E i \in DOMAIN ser_result : ser_result[i] = Str(name)

\* C33 (as claimed): the Task that create_task stores under a name holds the
\* thread id and the CPU clock of the thread it spawned to run the closure.
C33_TaskIdentifiesSpawnedThread ==
    \A name \in DOMAIN mon_tasks :
        /\ mon_tasks[name].thread_id = mon_closure[name]
        /\ mon_tasks[name].cpu_clock_id = CpuClockOf(mon_closure[name])

\* C34: every task's occupancy ring holds at most 100 entries, and it holds the
\* most recent samples in the order they were pushed: a push onto a full ring
\* evicts the oldest entry.
C34_RingBounded ==
    \A name \in DOMAIN mon_tasks :
        LET ring == mon_tasks[name].occupacy
            all == mon_pushed[name]
        IN /\ Len(ring) <= RingCapacity
           /\ Len(ring) = IF Len(all) < RingCapacity THEN Len(all) ELSE RingCapacity
           /\ ring = SubSeq(all, Len(all) - Len(ring) + 1, Len(all))

\* more samples than the ring holds have been pushed; the first of them, the
\* only busy one, is no longer in the full ring
C34_Witness ==
    /\ "t1" \in DOMAIN mon_tasks
    /\ Len(mon_pushed["t1"]) > RingCapacity
    /\ mon_pushed["t1"][1] > 0
    /\ Len(mon_tasks["t1"].occupacy) = RingCapacity
    /\ \A i \in 1..RingCapacity : mon_tasks["t1"].occupacy[i] = 0

\* The thread inside the default run() takes a step
C35_RunStep == bKind \in {"Default", "TcpSender"} /\ runPc' # runPc

\* C35 (as claimed): once the state is Stopped while the default run() is
\* looping, the state stays Stopped until run() returns, a process() in
\* progress is followed by the loop test and by nothing else, and the loop
\* test makes run() return Ok.
C35_StopEndsRunAsClaimed ==
    [][/\ ((C35_RunStep /\ runPc = "loop" /\ proc_state = "Stopped")
            => (runPc' = "idle" /\ bLastRes' = "Ok"))
       /\ ((C35_RunStep /\ runPc = "process" /\ proc_state = "Stopped")
            => (runPc' = "loop"))
       /\ ((bKind \in {"Default", "TcpSender"} /\ runPc # "idle"
             /\ proc_state = "Stopped")
            => (proc_state' = "Stopped" \/ runPc' = "idle"))]_vars

\* C35 (amended): when the loop test of the default run() finds the state
\* Stopped, run() returns Ok without another process(); a process() in
\* progress when the state is Stopped is followed by that test or ends run()
\* with its own error; and when every process() returns, a run() that is
\* looping while the state is Stopped returns unless an init() takes the state
\* out of Stopped first.
C35_StopEndsRun ==
    /\ [][/\ ((C35_RunStep /\ runPc = "loop" /\ proc_state = "Stopped")
                => (runPc' = "idle" /\ bLastOp' = "run_loop" /\ bLastRes' = "Ok"))
           /\ ((C35_RunStep /\ runPc = "process" /\ proc_state = "Stopped")
                => (\/ runPc' = "loop"
                    \/ (runPc' = "idle" /\ bLastRes' = "ProcessError")))]_vars
    /\ ((bKind \in {"Default", "TcpSender"} /\ runPc # "idle" /\ proc_state = "Stopped")
          ~> (runPc = "idle" \/ proc_state # "Stopped"))

\* the default run() has returned Ok from its loop test on a state that stop()
\* had set to Stopped while it was looping
C35_Witness ==
    /\ bKind = "Default"
    /\ runPc = "idle"
    /\ bLastOp = "run_loop" /\ bLastRes = "Ok" /\ bPre = "Stopped"
    /\ proc_state = "Stopped"

\* C36: the TaskManager mutex is held only briefly: no thread holds it while it
\* waits in join for a thread that has not ended, so a thread calling
\* TaskManager::get().lock() is not kept out for as long as a mode runs.
C36_TaskManagerHeldBriefly ==
    \A t \in TaskIds :
        (tmOwner = t /\ task[t].pc = "join" /\ task[t].handles # <<>>)
            => JoinReady(Head(task[t].handles))

\* C37: a thread blocked in recv on a block's input inside process() does not
\* hold that block's lock.
C37_NoLockAcrossRecv ==
    \A k \in ProcKinds : procPc[k] = "blocked" => ~procLock[k]

\* C38: once stop() of a TcpReceiver has touched the process-wide stop flag,
\* the flag is true, whether or not a handler touched it first; and stop()
\* has returned with the block Stopped only with every handler joined.
C38_StopSetsFlag ==
    /\ (tcpStopPc # "idle") => THREAD_EXIT = "true"
    /\ (tcpStopPc = "done") => (tcp_proc_state = "Stopped" /\ tcp_handle = <<>>)

\* C39: Stopped is not terminal under the default lifecycle: init() on a
\* Stopped block whose statics are all set returns Ok and sets Initial, and a
\* run() called in Initial is accepted and sets Running.
C39_StoppedNotTerminal ==
    bKind = "Default" =>
        /\ (bLastOp = "init" /\ bPre = "Stopped" /\ bPreSettable = {})
              => (bLastRes = "Ok" /\ proc_state = "Initial")
        /\ (bLastOp = "run" /\ bPre = "Initial")
              => (bLastRes = "-" /\ proc_state = "Running" /\ runPc = "loop")

\* init() has just returned Ok on a default block that was Stopped
C39_Witness ==
    /\ bKind = "Default"
    /\ bLastOp = "init" /\ bPre = "Stopped" /\ bLastRes = "Ok"
    /\ proc_state = "Initial"
    /\ runPc = "idle"

====
